---- MODULE Spec2Model ----
(***************************************************************************)
(* Model of the LRU cache of package cache (lruCache in cache.go) on top   *)
(* of the doubly linked list of package genericlist.                       *)
(*                                                                         *)
(* The heap of entries is modelled explicitly: every *entry and the        *)
(* *Element that moveToFrontLocked creates for it share one address, and   *)
(* the next/prev pointers of the element are kept exactly as the list code *)
(* leaves them (unlink does not clear the pointers of the unlinked         *)
(* element, Remove does not clear Element.list).                           *)
(*                                                                         *)
(* The shard mutex is held from Lock to the next Unlock, so every action   *)
(* below is one critical section: from Lock (or re-Lock) to the Unlock     *)
(* before the provider call, the Unlock before the select, or the return.  *)
(***************************************************************************)
EXTENDS Integers, Sequences, FiniteSets, Bags, TLC

\* ---------------------------------------------------------------- bounds
MaxGets  == 3
NumKeys  == 3
NumHotKeys == 2
NumVals  == 2
MaxCap   == 2
MaxOps   == 2
MaxOpsRT == 4
MaxOpsGet == 3
MaxOpsLRU == 5
MaxTime  == 2
MaxExpiry == 1
TTL      == 1
MaxShards == 3
MaxOpsSharded == 3
MaxOpsList == 4
MaxOpsPush == 4
MaxOpsState == 6
MaxOpsJob == 5
MaxOpsTTL == 4
NumLiveKeys == 1
MaxOpsLive == 3
NumGoroutines == 2
MaxDepth == 2
MaxOpsReentrant == 4
MaxOpsJobSteps == 4
\* width of the machine integer the hasher returns
IntBits  == 4

Keys  == 1..NumKeys
\* the keys the concurrent callers contend on
HotKeys == 1..NumHotKeys
Vals  == 1..NumVals

\* nil pointer, zero value of K and V, zero time.Time
Nil     == 0
ZeroKey == 0
ZeroVal == 0
ZeroTime == 0

VARIABLES
    maxSize,      \* lruCache.maxSize
    defaultTTL,   \* lruCache.defaultTTL
    loadFn,       \* lruCache.loadFn != nil
    now,          \* lruCache.clock.Now()
    byKey,        \* lruCache.byKey : key -> address of entry (Nil = absent)
    heap,         \* allocated entries (and their list elements), by address
    front,        \* List.front
    back,         \* List.back
    numElements,  \* List.numElements
    stats,        \* lruCache.stats
    panicked,     \* a nil dereference happened (goroutine panicked)
    gets,         \* the Gets in progress (a bag, goroutines are anonymous): where
                  \* each is ("waiting" in the select, "loading" in loadFn), its k,
                  \* and the entry whose channel it waits on / whose load it runs
    ops,          \* number of operations started (bounds the run)
    hist,         \* history: per key provider calls, returned Gets, Puts; own loads
    last,         \* the step that was taken last, with its result
    shards,       \* shardedCache.shards: one lruCache state per shard (<<>> when
                  \* New returned a plain lruCache)
    hashFn,       \* shardedCache.hashFn: key -> int, NilHash when none was given
    state,        \* lifecycle.State.state
    started,      \* State.started is closed
    stopped,      \* State.stopped is closed
    closed,       \* State.closed is closed
    signalled,    \* OnDemandJob.signalled: the signals buffered, closed or not
    loop,         \* where the job's goroutine is: "select", "loopFn", "exited"
                  \* (left the loop), "closing" (signalled closed), "done";
                  \* "none" without a job
    mut,          \* State.mut, a sync.RWMutex: the read locks held, and whether
                  \* a writer has announced itself and waits for or holds it
    callers       \* per goroutine, the State method it is in and how far it
                  \* got (<<>> where a method call is one step)

cacheVars == <<byKey, heap, front, back, numElements, stats, panicked>>
shardVars == <<shards, hashFn>>
lifecycleVars == <<state, started, stopped, closed, signalled, loop, mut, callers>>
vars == <<maxSize, defaultTTL, loadFn, now, byKey, heap, front, back,
          numElements, stats, panicked, gets, ops, hist, last, shards, hashFn,
          state, started, stopped, closed, signalled, loop, mut, callers>>

\* ------------------------------------------------------------ the entry
\* type entry: k, v, expiry, element, loading; the Element's list, next and
\* prev (list is Nil as long as the entry has no Element)
newEntry(isLoading) ==
    [k |-> ZeroKey, v |-> ZeroVal, expiry |-> ZeroTime, element |-> FALSE,
     loading |-> isLoading, list |-> Nil, next |-> Nil, prev |-> Nil]

\* the List the operators below are called on, and any other List
ThisList == 1
OtherList == 2

\* &Element{Value: v, list: l}
newElement(v, l) ==
    [newEntry(FALSE) EXCEPT !.v = v, !.element = TRUE, !.list = l]

\* the mutable state of one lruCache, as a value the operators transform
Cur ==
    [byKey |-> byKey, heap |-> heap, front |-> front, back |-> back,
     numElements |-> numElements, stats |-> stats, panicked |-> panicked]

Commit(c) ==
    /\ byKey' = c.byKey
    /\ heap' = c.heap
    /\ front' = c.front
    /\ back' = c.back
    /\ numElements' = c.numElements
    /\ stats' = c.stats
    /\ panicked' = c.panicked

\* ------------------------------------------------------------- the list
\* Element.unlink: the neighbours are joined, e.next and e.prev are kept
unlink(h, e) ==
    LET h1 == IF h[e].next # Nil
              THEN [h EXCEPT ![h[e].next].prev = h[e].prev] ELSE h
        h2 == IF h1[e].prev # Nil
              THEN [h1 EXCEPT ![h1[e].prev].next = h1[e].next] ELSE h1
    IN h2

moveToFrontInternal(c, e) ==
    LET h1 == unlink(c.heap, e)
        h2 == IF c.front # Nil THEN [h1 EXCEPT ![c.front].prev = e] ELSE h1
        h3 == [h2 EXCEPT ![e].next = c.front]
    IN [c EXCEPT !.heap = h3,
                 !.front = e,
                 !.back = IF c.back = Nil THEN e ELSE c.back]

\* List.MoveToFront
MoveToFront(c, e) ==
    IF c.heap[e].list # ThisList \/ e = c.front \/ c.numElements = 0
    THEN c
    ELSE moveToFrontInternal(c, e)

\* moveToBackInternal that leaves e.prev as it was
moveToBackInternalKeepsPrev(c, e) ==
    LET h1 == unlink(c.heap, e)
        h2 == IF c.back # Nil THEN [h1 EXCEPT ![c.back].next = e] ELSE h1
    IN [c EXCEPT !.heap = h2,
                 !.back = e,
                 !.front = IF c.front = Nil THEN e ELSE c.front]

moveToBackInternal(c, e) ==
    LET h1 == unlink(c.heap, e)
        h2 == IF c.back # Nil THEN [h1 EXCEPT ![c.back].next = e] ELSE h1
        h3 == [h2 EXCEPT ![e].prev = c.back]
    IN [c EXCEPT !.heap = h3,
                 !.back = e,
                 !.front = IF c.front = Nil THEN e ELSE c.front]

\* List.MoveToBack
MoveToBack(c, e) ==
    IF c.heap[e].list # ThisList \/ e = c.back \/ c.numElements = 0
    THEN c
    ELSE moveToBackInternal(c, e)

moveAfterInternal(c, e, mark) ==
    IF mark = c.back
    THEN MoveToBack(c, e)
    ELSE LET h1 == unlink(c.heap, e)
             h2 == IF h1[mark].next # Nil
                   THEN [h1 EXCEPT ![h1[mark].next].prev = e] ELSE h1
             h3 == [h2 EXCEPT ![e].next = h2[mark].next]
             h4 == [h3 EXCEPT ![mark].next = e]
         IN [c EXCEPT !.heap = [h4 EXCEPT ![e].prev = mark]]

\* List.MoveAfter (mark is never nil here)
MoveAfter(c, e, mark) ==
    IF \/ c.heap[e].list # ThisList \/ e = mark
       \/ c.heap[mark].list # ThisList \/ c.numElements = 0
    THEN c
    ELSE moveAfterInternal(c, e, mark)

moveBeforeInternal(c, e, mark) ==
    IF mark = c.front
    THEN MoveToFront(c, e)
    ELSE LET h1 == unlink(c.heap, e)
             h2 == IF h1[mark].prev # Nil
                   THEN [h1 EXCEPT ![h1[mark].prev].next = e] ELSE h1
             h3 == [h2 EXCEPT ![e].prev = h2[mark].prev]
             h4 == [h3 EXCEPT ![mark].prev = e]
         IN [c EXCEPT !.heap = [h4 EXCEPT ![e].next = mark]]

\* List.MoveBefore (mark is never nil here)
MoveBefore(c, e, mark) ==
    IF \/ c.heap[e].list # ThisList \/ e = mark
       \/ c.heap[mark].list # ThisList \/ c.numElements = 0
    THEN c
    ELSE moveBeforeInternal(c, e, mark)

\* List.PushFront: the new Element takes the address e (in the cache, the
\* address of its entry)
PushFront(c, e) ==
    LET c1 == [c EXCEPT !.numElements = @ + 1, !.heap[e].element = TRUE,
                        !.heap[e].list = ThisList]
        c2 == moveToFrontInternal(c1, e)
    IN [c2 EXCEPT !.back = IF c2.back = Nil THEN e ELSE c2.back]

\* List.PushBack
PushBack(c, e) ==
    LET c1 == [c EXCEPT !.numElements = @ + 1, !.heap[e].element = TRUE,
                        !.heap[e].list = ThisList]
        c2 == moveToBackInternal(c1, e)
    IN [c2 EXCEPT !.front = IF c2.front = Nil THEN e ELSE c2.front]

\* List.InsertBefore: nothing is allocated when mark is not of this list
InsertBefore(c, v, mark) ==
    IF c.heap[mark].list # ThisList
    THEN c
    ELSE LET e  == Len(c.heap) + 1
             c1 == [c EXCEPT !.heap = Append(@, newElement(v, ThisList)),
                             !.numElements = @ + 1]
         IN IF c1.numElements = 0
            THEN [c1 EXCEPT !.front = e, !.back = e]
            ELSE moveBeforeInternal(c1, e, mark)

\* List.InsertAfter
InsertAfter(c, v, mark) ==
    IF c.heap[mark].list # ThisList
    THEN c
    ELSE LET e  == Len(c.heap) + 1
             c1 == [c EXCEPT !.heap = Append(@, newElement(v, ThisList)),
                             !.numElements = @ + 1]
         IN IF c1.numElements = 0
            THEN [c1 EXCEPT !.front = e, !.back = e]
            ELSE moveAfterInternal(c1, e, mark)

\* List.Remove that does not look at e.list
RemoveOfAnyList(c, e) ==
    IF c.numElements = 0 THEN c
    ELSE LET f == IF e = c.front THEN c.heap[c.front].next ELSE c.front
             b == IF e = c.back THEN c.heap[c.back].prev ELSE c.back
         IN [c EXCEPT !.front = f, !.back = b,
                      !.heap = unlink(c.heap, e),
                      !.numElements = @ - 1]

\* List.Remove
Remove(c, e) ==
    IF c.heap[e].list # ThisList \/ c.numElements = 0 THEN c
    ELSE LET f == IF e = c.front THEN c.heap[c.front].next ELSE c.front
             b == IF e = c.back THEN c.heap[c.back].prev ELSE c.back
         IN [c EXCEPT !.front = f, !.back = b,
                      !.heap = unlink(c.heap, e),
                      !.numElements = @ - 1]

ListLen(c) == c.numElements

\* ------------------------------------------------------------ the cache
moveToFrontLocked(c, e) ==
    IF ~c.heap[e].element THEN PushFront(c, e) ELSE MoveToFront(c, e)

\* evictToSize with the loop condition off by one (Len > maxSize + 1)
evictToSizeOffByOne(c) ==
    IF ListLen(c) > maxSize + 1 /\ c.back # Nil
    THEN Remove([c EXCEPT !.stats.Evictions = @ + 1,
                          !.byKey[c.heap[c.back].k] = Nil], c.back)
    ELSE c

RECURSIVE evictToSize(_)
evictToSize(c) ==
    IF ListLen(c) > maxSize
    THEN LET c1 == [c EXCEPT !.stats.Evictions = @ + 1]
             toEvict == c1.back
         IN IF toEvict = Nil
            THEN [c1 EXCEPT !.panicked = TRUE]
            ELSE evictToSize(Remove([c1 EXCEPT !.byKey[c1.heap[toEvict].k] = Nil],
                                    toEvict))
    ELSE c

\* putLocked without the default TTL branch
storedExpiryNoDefault(old, expiry) ==
    IF expiry # ZeroTime THEN expiry ELSE old

\* putLocked testing the default TTL before the supplied expiry
storedExpiryDefaultFirst(old, expiry) ==
    IF defaultTTL # 0 THEN now + defaultTTL
    ELSE IF expiry # ZeroTime THEN expiry
    ELSE old

\* the expiry putLocked stores, given the one the entry has
storedExpiry(old, expiry) ==
    IF expiry # ZeroTime THEN expiry
    ELSE IF defaultTTL # 0 THEN now + defaultTTL
    ELSE old

\* the entry putLocked writes to: the mapped one, or a new one
putTarget(c, k) ==
    IF c.byKey[k] # Nil THEN c.byKey[k] ELSE Len(c.heap) + 1

\* putLocked without the eviction
putLockedNoEvict(c, k, v, expiry) ==
    LET e  == putTarget(c, k)
        c1 == IF c.byKey[k] # Nil THEN c
              ELSE [c EXCEPT !.heap = Append(@, newEntry(FALSE)), !.byKey[k] = e]
        c2 == [c1 EXCEPT !.heap[e].expiry = storedExpiry(@, expiry),
                         !.heap[e].k = k,
                         !.heap[e].v = v]
    IN moveToFrontLocked(c2, e)

putLocked(c, k, v, expiry) ==
    LET e  == putTarget(c, k)
        c1 == IF c.byKey[k] # Nil THEN c
              ELSE [c EXCEPT !.heap = Append(@, newEntry(FALSE)), !.byKey[k] = e]
        c2 == [c1 EXCEPT !.heap[e].expiry = storedExpiry(@, expiry),
                         !.heap[e].k = k,
                         !.heap[e].v = v]
        c3 == moveToFrontLocked(c2, e)
    IN IF ListLen(c3) > maxSize THEN evictToSize(c3) ELSE c3

\* the expiry test with !Before in place of After
isExpiredAtExpiry(en) == en.expiry # ZeroTime /\ now >= en.expiry

\* accessValueLocked: the expiry test
isExpired(en) == en.expiry # ZeroTime /\ now > en.expiry

\* accessValueLocked taking a hit back when the entry it hit has expired
dropExpiredTakesHitBack(c, e) ==
    Remove([c EXCEPT !.stats.Expirations = @ + 1, !.stats.Hits = @ - 1,
                     !.byKey[c.heap[e].k] = Nil], e)

\* accessValueLocked: the expired entry is dropped
dropExpired(c, e) ==
    Remove([c EXCEPT !.stats.Expirations = @ + 1, !.byKey[c.heap[e].k] = Nil], e)

\* accessValueLocked counting a hit twice
hitEntryCountedTwice(c, e) ==
    LET c1 == moveToFrontLocked(c, e)
    IN [c1 EXCEPT !.stats.Hits = @ + 2]

\* accessValueLocked: the hit
hitEntry(c, e) ==
    LET c1 == moveToFrontLocked(c, e)
    IN [c1 EXCEPT !.stats.Hits = @ + 1]

\* loadLocked that forgets to put the placeholder into the map
installPlaceholderUnmapped(c, k) ==
    [c EXCEPT !.heap = Append(@, newEntry(TRUE)),
              !.stats.LoadAttempts = @ + 1]

\* loadLocked that does not count the load attempt
installPlaceholderUncounted(c, k) ==
    [c EXCEPT !.heap = Append(@, newEntry(TRUE)),
              !.byKey[k] = Len(c.heap) + 1]

\* loadLocked: the placeholder is installed
installPlaceholder(c, k) ==
    [c EXCEPT !.heap = Append(@, newEntry(TRUE)),
              !.byKey[k] = Len(c.heap) + 1,
              !.stats.LoadAttempts = @ + 1]

\* loadLocked: close(entry.loading); entry.loading = nil
closeLoading(c, e) == [c EXCEPT !.heap[e].loading = FALSE]

\* loadLocked counting a provider NotFound as a miss and a load failure
loadFailedCountsBoth(c, k, err) ==
    LET c1 == [c EXCEPT !.byKey[k] = Nil, !.stats.LoadFailures = @ + 1]
    IN IF err = "ErrNotFound"
       THEN [c1 EXCEPT !.stats.Misses = @ + 1]
       ELSE c1

\* loadLocked counting every provider error as a load failure
loadFailedAsFailure(c, k, err) ==
    [c EXCEPT !.byKey[k] = Nil, !.stats.LoadFailures = @ + 1]

\* loadLocked leaving the placeholder of a failed load in the map
loadFailedKeepsPlaceholder(c, k, err) ==
    IF err = "ErrNotFound"
    THEN [c EXCEPT !.stats.Misses = @ + 1]
    ELSE [c EXCEPT !.stats.LoadFailures = @ + 1]

\* loadLocked: the provider failed
loadFailed(c, k, err) ==
    LET c1 == [c EXCEPT !.byKey[k] = Nil]
    IN IF err = "ErrNotFound"
       THEN [c1 EXCEPT !.stats.Misses = @ + 1]
       ELSE [c1 EXCEPT !.stats.LoadFailures = @ + 1]

\* loadLocked without a provider
countMiss(c) == [c EXCEPT !.stats.Misses = @ + 1]

\* lruCache.Statistics
Statistics == [stats EXCEPT !.CurrentSize = numElements]

\* the channel entry.loading of placeholder e is closed
chanClosed(e) == ~heap[e].loading

\* ------------------------------------------------------------- history
\* The history records what the callers and the provider did and saw; the
\* cache never reads it.
\*   calls[k]     provider invocations started for k
\*   returned[k]  Gets of k that returned without cancellation
\*   puts[k]      Put and PutWithTTL calls for k
\*   ownLoads     Gets that returned the value of their own successful load
\*   cancelled    Gets that returned ctx.Err()
\*   touched[k]   logical time of the last touch of k (hit, put, load result),
\*                0 when k was never touched or has left the cache since
\*   written[k]   the value last put or loaded for k, ZeroVal when there is
\*                none or k was evicted or expired since
\*   evicted[k], expired[k], failed[k]
\*                evictions and expirations of k, failed loads of k
Step(op, k, v, e, res) ==
    [op |-> op, k |-> k, v |-> v, e |-> e, res |-> res, expiry |-> ZeroTime]

\* a step that supplied an expiry with the value it wrote
StepWith(op, k, v, e, res, expiry) ==
    [Step(op, k, v, e, res) EXCEPT !.expiry = expiry]

Returned(h, k) == [h EXCEPT !.returned[k] = @ + 1]

Touch(h, k) == [h EXCEPT !.clock = @ + 1, !.touched[k] = h.clock + 1]

\* the keys that evictToSize deleted from the map during putLocked(c0, k, ..)
EvictedKeys(c0, k, c1) ==
    {j \in Keys : c1.byKey[j] = Nil /\ (c0.byKey[j] # Nil \/ j = k)}

Forget(h, S) ==
    [h EXCEPT !.touched = [j \in Keys |-> IF j \in S THEN 0 ELSE @[j]],
              !.written = [j \in Keys |-> IF j \in S THEN ZeroVal ELSE @[j]]]

\* putLocked(c0, k, v, ..) gave c1
Wrote(h, k, v, c0, c1) ==
    LET S  == EvictedKeys(c0, k, c1)
        h1 == [Touch(h, k) EXCEPT !.written[k] = v]
        h2 == [h1 EXCEPT !.evicted = [j \in Keys |-> IF j \in S THEN @[j] + 1 ELSE @[j]]]
    IN Forget(h2, S)

Expired(h, k) == Forget([h EXCEPT !.expired[k] = @ + 1], {k})

InFlight(st, k, e) == [st |-> st, k |-> k, e |-> e]
One(g) == SetToBag({g})

\* a loadLocked that calls the provider without unlocking c.mut
holdsMutWhileLoading(g) == g.st = "loading"

\* an accessValueLocked that selects on the channel without unlocking c.mut
holdsMutWhileWaiting(g) == g.st = "waiting"

\* c.mut while a Get is parked: loadLocked unlocks before it calls the provider
\* and accessValueLocked before it selects on the channel, so a Get that is
\* loading or waiting does not hold the mutex
holdsMut(g) == FALSE

\* c.mut.Lock() returns: no Get in progress holds the mutex
canLock == \A g \in BagToSet(gets) : ~holdsMut(g)

\* ------------------------------------------------------------- actions
\* loadLocked up to the provider call; rest are the other Gets in progress
LoadLocked(k, c, rest, op, h) ==
    IF ~loadFn
    THEN /\ Commit(countMiss(c))
         /\ gets' = rest
         /\ hist' = Returned(h, k)
         /\ last' = Step(op, k, ZeroVal, Nil, "ErrNotFound")
    ELSE /\ Commit(installPlaceholder(c, k))
         /\ gets' = rest (+) One(InFlight("loading", k, Len(c.heap) + 1))
         /\ hist' = [h EXCEPT !.calls[k] = @ + 1]
         /\ last' = Step(op, k, ZeroVal, Len(c.heap) + 1, "loading")

\* accessValueLocked: one pass of the loop, up to the select or the return
AccessValueLocked(k, c, e, rest, op) ==
    IF c.heap[e].loading
    THEN /\ Commit(c)
         /\ gets' = rest (+) One(InFlight("waiting", k, e))
         /\ hist' = hist
         /\ last' = Step(op, k, ZeroVal, e, "waiting")
    ELSE IF isExpired(c.heap[e])
    THEN LoadLocked(k, dropExpired(c, e), rest, op, Expired(hist, c.heap[e].k))
    ELSE /\ Commit(hitEntry(c, e))
         /\ gets' = rest
         /\ hist' = Touch(Returned(hist, k), k)
         /\ last' = Step(op, k, c.heap[e].v, e, "hit")

Get(k) ==
    /\ ~panicked /\ BagCardinality(gets) < MaxGets
    /\ canLock
    /\ ops' = ops + 1
    /\ IF byKey[k] # Nil
       THEN AccessValueLocked(k, Cur, byKey[k], gets, "Get")
       ELSE LoadLocked(k, Cur, gets, "Get", hist)
    /\ UNCHANGED <<lifecycleVars, shardVars, maxSize, defaultTTL, loadFn, now>>

\* case <-loading: the channel is closed, the map is read again
Wake(g) ==
    /\ ~panicked /\ BagIn(g, gets) /\ g.st = "waiting"
    /\ chanClosed(g.e)
    /\ canLock
    /\ IF byKey[g.k] = Nil
       THEN LoadLocked(g.k, Cur, gets (-) One(g), "Wake", hist)
       ELSE AccessValueLocked(g.k, Cur, byKey[g.k], gets (-) One(g), "Wake")
    /\ UNCHANGED <<lifecycleVars, shardVars, maxSize, defaultTTL, loadFn, now, ops>>

\* a cancelled waiter that counts itself as a miss
CancelCountsMiss(g) ==
    /\ ~panicked /\ BagIn(g, gets) /\ g.st = "waiting"
    /\ canLock
    /\ gets' = gets (-) One(g)
    /\ stats' = [stats EXCEPT !.Misses = @ + 1]
    /\ hist' = [hist EXCEPT !.cancelled = @ + 1]
    /\ last' = Step("Cancel", g.k, ZeroVal, Nil, "ctxErr")
    /\ UNCHANGED <<lifecycleVars, shardVars, maxSize, defaultTTL, loadFn, now, ops,
                   byKey, heap, front, back, numElements, panicked>>

\* case <-ctx.Done()
Cancel(g) ==
    /\ ~panicked /\ BagIn(g, gets) /\ g.st = "waiting"
    /\ canLock
    /\ gets' = gets (-) One(g)
    /\ hist' = [hist EXCEPT !.cancelled = @ + 1]
    /\ last' = Step("Cancel", g.k, ZeroVal, Nil, "ctxErr")
    /\ UNCHANGED <<lifecycleVars, shardVars, maxSize, defaultTTL, loadFn, now, ops, cacheVars>>

\* what the provider can return: (v, expiry, nil) or an error
Outcomes ==
    [v : Vals, expiry : 0..MaxExpiry, err : {"nil"}]
      \cup [v : {ZeroVal}, expiry : {ZeroTime}, err : {"ErrNotFound", "error"}]

\* loadLocked from the return of the provider
LoadReturn(g, out) ==
    /\ ~panicked /\ BagIn(g, gets) /\ g.st = "loading"
    /\ canLock
    /\ LET c1 == closeLoading(Cur, g.e)
           c2 == putLocked(c1, g.k, out.v, out.expiry)
       IN IF out.err # "nil"
          THEN /\ Commit(loadFailed(c1, g.k, out.err))
               /\ hist' = [Returned(hist, g.k) EXCEPT !.failed[g.k] = @ + 1]
               /\ last' = Step("LoadReturn", g.k, ZeroVal, g.e, out.err)
          ELSE /\ Commit(c2)
               /\ hist' = [Wrote(Returned(hist, g.k), g.k, out.v, c1, c2)
                             EXCEPT !.ownLoads = @ + 1]
               /\ last' = StepWith("LoadReturn", g.k, out.v, putTarget(c1, g.k),
                                   "loaded", out.expiry)
    /\ gets' = gets (-) One(g)
    /\ UNCHANGED <<lifecycleVars, shardVars, maxSize, defaultTTL, loadFn, now, ops>>

Put(k, v) ==
    /\ ~panicked /\ canLock
    /\ ops' = ops + 1
    /\ LET c2 == putLocked(Cur, k, v, ZeroTime)
       IN /\ Commit(c2)
          /\ hist' = [Wrote(hist, k, v, Cur, c2) EXCEPT !.puts[k] = @ + 1]
    /\ last' = Step("Put", k, v, putTarget(Cur, k), "done")
    /\ UNCHANGED <<lifecycleVars, shardVars, maxSize, defaultTTL, loadFn, now, gets>>

PutWithTTL(k, v, expiry) ==
    /\ ~panicked /\ canLock
    /\ ops' = ops + 1
    /\ LET c2 == putLocked(Cur, k, v, expiry)
       IN /\ Commit(c2)
          /\ hist' = [Wrote(hist, k, v, Cur, c2) EXCEPT !.puts[k] = @ + 1]
    /\ last' = StepWith("PutWithTTL", k, v, putTarget(Cur, k),
                        IF expiry = ZeroTime THEN "zero" ELSE "done", expiry)
    /\ UNCHANGED <<lifecycleVars, shardVars, maxSize, defaultTTL, loadFn, now, gets>>

\* the injected clock advances
Tick ==
    /\ now < MaxTime /\ ~panicked
    /\ now' = now + 1
    /\ last' = Step("Tick", ZeroKey, ZeroVal, Nil, "ticked")
    /\ UNCHANGED <<lifecycleVars, shardVars, maxSize, defaultTTL, loadFn, gets, ops, hist, cacheVars>>

NoneYet == [k \in Keys |-> 0]

InitCache ==
    /\ now = 1
    /\ byKey = [k \in Keys |-> Nil]
    /\ heap = <<>>
    /\ front = Nil
    /\ back = Nil
    /\ numElements = 0
    /\ stats = [Hits |-> 0, Misses |-> 0, LoadAttempts |-> 0, LoadFailures |-> 0,
                Expirations |-> 0, Evictions |-> 0, CurrentSize |-> 0]
    /\ panicked = FALSE
    /\ gets = EmptyBag
    /\ ops = 0
    /\ hist = [calls |-> NoneYet, returned |-> NoneYet, puts |-> NoneYet,
               ownLoads |-> 0, cancelled |-> 0, clock |-> 0, touched |-> NoneYet,
               written |-> [k \in Keys |-> ZeroVal], evicted |-> NoneYet,
               expired |-> NoneYet, failed |-> NoneYet]
    /\ last = Step("none", ZeroKey, ZeroVal, Nil, "none")

\* type state
stateInit    == 0
stateStarted == 1
stateStopped == 2
stateClosed  == 3

\* the zero sync.RWMutex, and no goroutine inside a method
NoCallers == mut = [readers |-> 0, pending |-> FALSE] /\ callers = <<>>

\* no lifecycle.State and no OnDemandJob exist
NoLifecycle ==
    /\ NoCallers
    /\ state = stateInit
    /\ started = FALSE /\ stopped = FALSE /\ closed = FALSE
    /\ signalled = [buf |-> 0, closed |-> FALSE]
    /\ loop = "none"

\* New returned a plain lruCache (no Sharded option, or shardCount <= 1)
\* a nil HashFn
NilHash == <<>>

Unsharded == shards = <<>> /\ hashFn = NilHash

GetsInProgress == BagToSet(gets)

\* the provider never sets an expiry
OutcomesNoExpiry == {out \in Outcomes : out.expiry = ZeroTime}

\* the callers start at most n operations
Budget(n) == ops < n

\* ---- every configuration New accepts with maxSize >= 1, every operation,
\* ---- the clock; the callers and the provider use one value
TheVal == {1}
OutcomesTheVal == {out \in Outcomes : out.v \in TheVal \cup {ZeroVal}}

Init ==
    /\ maxSize \in 1..MaxCap
    /\ defaultTTL \in {0, TTL}
    /\ loadFn \in BOOLEAN
    /\ InitCache
    /\ NoLifecycle
    /\ Unsharded

Next ==
    \/ \E k \in HotKeys : Budget(MaxOps) /\ Get(k)
    \/ \E g \in GetsInProgress : Wake(g)
    \/ \E g \in GetsInProgress : Cancel(g)
    \/ \E g \in GetsInProgress, out \in OutcomesTheVal : LoadReturn(g, out)
    \/ \E k \in HotKeys, v \in TheVal : Budget(MaxOps) /\ Put(k, v)
    \/ \E k \in HotKeys, v \in TheVal, x \in 0..MaxExpiry :
          Budget(MaxOps) /\ PutWithTTL(k, v, x)
    \/ Tick

Spec == Init /\ [][Next]_vars

\* ---- New(maxSize, WithLoadFn(..)): read-through, no default TTL, no expiries
InitRT ==
    /\ maxSize \in 1..MaxCap
    /\ defaultTTL = 0
    /\ loadFn = TRUE
    /\ InitCache
    /\ NoLifecycle
    /\ Unsharded

NextRT ==
    \/ \E k \in HotKeys : Budget(MaxOpsRT) /\ Get(k)
    \/ \E g \in GetsInProgress : Wake(g)
    \/ \E g \in GetsInProgress : Cancel(g)
    \/ \E g \in GetsInProgress, out \in OutcomesNoExpiry : LoadReturn(g, out)
    \/ \E k \in HotKeys, v \in Vals : Budget(MaxOpsRT) /\ Put(k, v)

SpecRT == InitRT /\ [][NextRT]_vars

\* ---- New(maxSize) or New(maxSize, WithLoadFn(..)), no default TTL: Gets in
\* ---- any interleaving, the provider returns any value or an error, the
\* ---- callers put one value
InitGet ==
    /\ maxSize \in 1..MaxCap
    /\ defaultTTL = 0
    /\ loadFn \in BOOLEAN
    /\ InitCache
    /\ NoLifecycle
    /\ Unsharded

NextGet ==
    \/ \E k \in HotKeys : Budget(MaxOpsGet) /\ Get(k)
    \/ \E g \in GetsInProgress : Wake(g)
    \/ \E g \in GetsInProgress : Cancel(g)
    \/ \E g \in GetsInProgress, out \in OutcomesNoExpiry : LoadReturn(g, out)
    \/ \E k \in HotKeys, v \in TheVal : Budget(MaxOpsGet) /\ Put(k, v)

SpecGet == InitGet /\ [][NextGet]_vars

\* ---- Gets and Puts of a few keys, with a provider whose every call returns
\* ---- and a scheduler that runs every goroutine that can run
LiveKeys == 1..NumLiveKeys

NextGetLive ==
    \/ \E k \in LiveKeys : Budget(MaxOpsLive) /\ Get(k)
    \/ \E g \in GetsInProgress : Wake(g)
    \/ \E g \in GetsInProgress : Cancel(g)
    \/ \E g \in GetsInProgress, out \in OutcomesNoExpiry : LoadReturn(g, out)
    \/ \E k \in LiveKeys, v \in TheVal : Budget(MaxOpsLive) /\ Put(k, v)

ProviderFails == {out \in OutcomesNoExpiry : out.err # "nil"}

\* the provider call of g returns, with an error or with a value
ProviderReturns(g) ==
    \/ \E out \in ProviderFails : LoadReturn(g, out)
    \/ \E out \in OutcomesNoExpiry \ ProviderFails : LoadReturn(g, out)

SpecGetLive ==
    /\ InitGet
    /\ [][NextGetLive]_vars
    /\ WF_vars(\E g \in GetsInProgress : Wake(g))
    /\ WF_vars(\E g \in GetsInProgress : ProviderReturns(g))

\* ---- New(maxSize) or New(maxSize, WithLoadFn(..)), no default TTL: entries
\* ---- with and without expiry, hits, and the clock
InitTTL ==
    /\ maxSize \in 1..MaxCap
    /\ defaultTTL = 0
    /\ loadFn \in BOOLEAN
    /\ InitCache
    /\ NoLifecycle
    /\ Unsharded

NextTTL ==
    \/ \E k \in HotKeys : Budget(MaxOpsTTL) /\ Get(k)
    \/ \E g \in GetsInProgress : Wake(g)
    \/ \E g \in GetsInProgress : Cancel(g)
    \/ \E g \in GetsInProgress, out \in OutcomesTheVal : LoadReturn(g, out)
    \/ \E k \in HotKeys, v \in TheVal, x \in 0..MaxExpiry :
          Budget(MaxOpsTTL) /\ PutWithTTL(k, v, x)
    \/ Tick

SpecTTL == InitTTL /\ [][NextTTL]_vars

\* ---- New(maxSize): no provider, no default TTL; Gets and Puts in sequence
InitLRU ==
    /\ maxSize \in 1..MaxCap
    /\ defaultTTL = 0
    /\ loadFn = FALSE
    /\ InitCache
    /\ NoLifecycle
    /\ Unsharded

NextLRU ==
    \/ \E k \in Keys : Budget(MaxOpsLRU) /\ Get(k)
    \/ \E k \in Keys, v \in Vals : Budget(MaxOpsLRU) /\ Put(k, v)

SpecLRU == InitLRU /\ [][NextLRU]_vars

\* ---- New(maxSize) for any maxSize: New checks nothing and has no error
\* ---- result; Gets and Puts in sequence
AnyMaxSize == {-1, 0} \cup (1..MaxCap)
NewReportsError == FALSE

InitNew ==
    /\ maxSize \in AnyMaxSize
    /\ defaultTTL = 0
    /\ loadFn = FALSE
    /\ InitCache
    /\ NoLifecycle
    /\ Unsharded

SpecNew == InitNew /\ [][NextLRU]_vars

\* ------------------------------------------------------ the sharded cache
\* Go's int: two's complement of IntBits bits, arithmetic wraps
MinInt == -(2^(IntBits - 1))
MaxInt == 2^(IntBits - 1) - 1
Ints == MinInt..MaxInt
wrap(x) == ((x - MinInt) % (2^IntBits)) + MinInt

\* Go's %: the remainder has the sign of the dividend
rem(a, n) == IF a >= 0 THEN a % n ELSE -((-a) % n)

\* shardedCache.shard: the index it computes from the hasher's result
shardIndex(hash, n) ==
    LET h == IF hash < 0 THEN wrap(-hash) ELSE hash
    IN rem(h, n)

\* c.shards[i] does not panic
inRange(i) == i \in 0..(Len(shards) - 1)

\* IntHash, and a seeded hash as StringHash and BytesHash are (any integer
\* can come out): the key offset by the seed
IntHash == [k \in Keys |-> wrap(k)]
Seeds == {MaxInt}
SeededHash(seed) == [k \in Keys |-> wrap(seed + k)]
HashFns == {IntHash} \cup {SeededHash(seed) : seed \in Seeds}

\* newLRUCache: an empty shard
newLRUCache ==
    [byKey |-> [k \in Keys |-> Nil], heap |-> <<>>, front |-> Nil, back |-> Nil,
     numElements |-> 0,
     stats |-> [Hits |-> 0, Misses |-> 0, LoadAttempts |-> 0, LoadFailures |-> 0,
                Expirations |-> 0, Evictions |-> 0, CurrentSize |-> 0],
     panicked |-> FALSE]

\* every shard is built from the same properties, maxSize included
newShardedCache(shardCount) == [i \in 1..shardCount |-> newLRUCache]

\* lruCache.Statistics of shard state c
StatisticsOf(c) == [c.stats EXCEPT !.CurrentSize = c.numElements]

\* Statistics.Add that leaves Evictions out
AddWithoutEvictions(s, other) ==
    [Hits |-> s.Hits + other.Hits,
     Misses |-> s.Misses + other.Misses,
     LoadAttempts |-> s.LoadAttempts + other.LoadAttempts,
     LoadFailures |-> s.LoadFailures + other.LoadFailures,
     Expirations |-> s.Expirations + other.Expirations,
     Evictions |-> s.Evictions,
     CurrentSize |-> s.CurrentSize + other.CurrentSize]

\* Statistics.Add
Add(s, other) ==
    [Hits |-> s.Hits + other.Hits,
     Misses |-> s.Misses + other.Misses,
     LoadAttempts |-> s.LoadAttempts + other.LoadAttempts,
     LoadFailures |-> s.LoadFailures + other.LoadFailures,
     Expirations |-> s.Expirations + other.Expirations,
     Evictions |-> s.Evictions + other.Evictions,
     CurrentSize |-> s.CurrentSize + other.CurrentSize]

\* var stats Statistics
ZeroStatistics == newLRUCache.stats

\* shardedCache.Statistics: the loop over the first n shards
RECURSIVE addShards(_)
addShards(n) ==
    IF n = 0 THEN ZeroStatistics
    ELSE Add(addShards(n - 1), StatisticsOf(shards[n]))

ShardedStatistics == addShards(Len(shards))

\* lruCache.Get by a caller that is alone on the shard: the provider's
\* outcome out is recorded before any other operation runs
lruGet(c, k, out) ==
    LET e  == c.byKey[k]
        c0 == IF e # Nil /\ isExpired(c.heap[e]) THEN dropExpired(c, e) ELSE c
        p  == Len(c0.heap) + 1
        c1 == closeLoading(installPlaceholder(c0, k), p)
    IN IF e # Nil /\ ~isExpired(c.heap[e]) THEN hitEntry(c, e)
       ELSE IF ~loadFn THEN countMiss(c0)
       ELSE IF out.err # "nil" THEN loadFailed(c1, k, out.err)
       ELSE putLocked(c1, k, out.v, out.expiry)

\* no provider outcome, no result: the entry of a Put in a record of calls
NoOutcome == [v |-> ZeroVal, err |-> "none"]

\* shardedCache.shard(k): the hasher is called, the index computed
shardOf(k) == shardIndex(hashFn[k], Len(shards))
canRoute(k) == hashFn # NilHash /\ inRange(shardOf(k))

\* the caller's goroutine panics: nil hasher, or index out of range
RoutePanics(op, k, v) ==
    /\ panicked' = TRUE
    /\ last' = Step(op, k, v, Nil, "panic")
    /\ UNCHANGED shards

\* a Put that reaches every shard
routedPutToAll(k, v) == [i \in DOMAIN shards |-> putLocked(shards[i], k, v, ZeroTime)]

\* c.shard(k).Get(ctx, k) and c.shard(k).Put(ctx, k, v): the shards afterwards
routedGet(k, out) == [shards EXCEPT ![shardOf(k) + 1] = lruGet(@, k, out)]
routedPut(k, v) == [shards EXCEPT ![shardOf(k) + 1] = putLocked(@, k, v, ZeroTime)]

\* what lruCache.Get returns to a caller that is alone on the shard
lruGetResult(c, k, out) ==
    LET e == c.byKey[k]
    IN IF e # Nil /\ ~isExpired(c.heap[e]) THEN [v |-> c.heap[e].v, err |-> "nil"]
       ELSE IF ~loadFn THEN [v |-> ZeroVal, err |-> "ErrNotFound"]
       ELSE [v |-> out.v, err |-> out.err]

\* the steps on the sharded cache record in last.e the index of the shard
ShardedGet(k, out) ==
    /\ ~panicked
    /\ ops' = ops + 1
    /\ IF canRoute(k)
       THEN /\ shards' = routedGet(k, out)
            /\ last' = Step("ShardedGet", k, out.v, shardOf(k), "routed")
            /\ UNCHANGED panicked
       ELSE RoutePanics("ShardedGet", k, ZeroVal)
    /\ UNCHANGED <<lifecycleVars, maxSize, defaultTTL, loadFn, now, hashFn, gets, hist,
                   byKey, heap, front, back, numElements, stats>>

ShardedPut(k, v) ==
    /\ ~panicked
    /\ ops' = ops + 1
    /\ IF canRoute(k)
       THEN /\ shards' = routedPut(k, v)
            /\ last' = Step("ShardedPut", k, v, shardOf(k), "routed")
            /\ UNCHANGED panicked
       ELSE RoutePanics("ShardedPut", k, v)
    /\ UNCHANGED <<lifecycleVars, maxSize, defaultTTL, loadFn, now, hashFn, gets, hist,
                   byKey, heap, front, back, numElements, stats>>

\* shardedCache.shard for a key whose hash is h: last.v is the hash, last.e
\* the index computed from it
Route(h) ==
    /\ ~panicked /\ hashFn # NilHash
    /\ panicked' = ~inRange(shardIndex(h, Len(shards)))
    /\ last' = Step("shard", ZeroKey, h, shardIndex(h, Len(shards)),
                    IF inRange(shardIndex(h, Len(shards))) THEN "routed" ELSE "panic")
    /\ UNCHANGED <<lifecycleVars, maxSize, defaultTTL, loadFn, now, shardVars, gets, ops, hist,
                   byKey, heap, front, back, numElements, stats>>

\* ---- New(maxSize, Sharded(shardCount, hashFn), ..) with shardCount > 1, with
\* ---- or without a provider, no default TTL
InitSharded ==
    /\ maxSize \in 1..MaxCap
    /\ defaultTTL = 0
    /\ loadFn \in BOOLEAN
    /\ InitCache
    /\ NoLifecycle
    /\ \E shardCount \in 2..MaxShards : shards = newShardedCache(shardCount)
    /\ hashFn \in HashFns \cup {NilHash}

\* one caller at a time, Gets and Puts, the clock stands still
OutcomesSharded == OutcomesTheVal \cap OutcomesNoExpiry

NextSharded ==
    \/ \E k \in Keys, out \in OutcomesSharded :
          Budget(MaxOpsSharded) /\ ShardedGet(k, out)
    \/ \E k \in Keys, v \in TheVal : Budget(MaxOpsSharded) /\ ShardedPut(k, v)

SpecSharded == InitSharded /\ [][NextSharded]_vars

\* ---- the same cache, with a record per shard of the calls routed to it
\* hist.log[i] lists the Gets and Puts that went to shard i - 1, each with
\* what the provider returned to it and what the call returned
LoggedGet(k, out) ==
    /\ ~panicked
    /\ ops' = ops + 1
    /\ IF canRoute(k)
       THEN /\ shards' = routedGet(k, out)
            /\ hist' = [hist EXCEPT !.log[shardOf(k) + 1] =
                          Append(@, [op |-> "Get", k |-> k, v |-> ZeroVal, out |-> out,
                                     res |-> lruGetResult(shards[shardOf(k) + 1], k, out)])]
            /\ last' = Step("ShardedGet", k, out.v, shardOf(k), "routed")
            /\ UNCHANGED panicked
       ELSE RoutePanics("ShardedGet", k, ZeroVal) /\ UNCHANGED hist
    /\ UNCHANGED <<lifecycleVars, maxSize, defaultTTL, loadFn, now, hashFn, gets,
                   byKey, heap, front, back, numElements, stats>>

LoggedPut(k, v) ==
    /\ ~panicked
    /\ ops' = ops + 1
    /\ IF canRoute(k)
       THEN /\ shards' = routedPut(k, v)
            /\ hist' = [hist EXCEPT !.log[shardOf(k) + 1] =
                          Append(@, [op |-> "Put", k |-> k, v |-> v, out |-> NoOutcome,
                                     res |-> NoOutcome])]
            /\ last' = Step("ShardedPut", k, v, shardOf(k), "routed")
            /\ UNCHANGED panicked
       ELSE RoutePanics("ShardedPut", k, v) /\ UNCHANGED hist
    /\ UNCHANGED <<lifecycleVars, maxSize, defaultTTL, loadFn, now, hashFn, gets,
                   byKey, heap, front, back, numElements, stats>>

InitShardLog ==
    /\ maxSize \in 1..MaxCap
    /\ defaultTTL = 0
    /\ loadFn \in BOOLEAN
    /\ now = 1
    /\ byKey = newLRUCache.byKey /\ heap = newLRUCache.heap
    /\ front = newLRUCache.front /\ back = newLRUCache.back
    /\ numElements = newLRUCache.numElements /\ stats = newLRUCache.stats
    /\ panicked = FALSE
    /\ gets = EmptyBag
    /\ ops = 0
    /\ last = Step("none", ZeroKey, ZeroVal, Nil, "none")
    /\ NoLifecycle
    /\ \E shardCount \in 2..MaxShards :
          /\ shards = newShardedCache(shardCount)
          /\ hist = [log |-> [i \in 1..shardCount |-> <<>>]]
    /\ hashFn \in HashFns \cup {NilHash}

NextShardLog ==
    \/ \E k \in HotKeys, out \in OutcomesSharded :
          Budget(MaxOpsSharded) /\ LoggedGet(k, out)
    \/ \E k \in HotKeys, v \in TheVal : Budget(MaxOpsSharded) /\ LoggedPut(k, v)

SpecShardLog == InitShardLog /\ [][NextShardLog]_vars

\* ---- the routing alone, for every integer a hasher can return
NextRoute == \E h \in Ints : Route(h)

SpecRoute == InitSharded /\ [][NextRoute]_vars

\* ------------------------------------------------ the generic list alone
\* A List[V] used directly: the list is the one of heap, front, back and
\* numElements, its Elements carry the pushed values. A second List holds one
\* Element (l2.PushFront(v)); it is never called, its Element is the foreign
\* handle. hist.removed are the handles the caller has removed.
ListStep(op, e, mark, v, res) ==
    [op |-> op, e |-> e, mark |-> mark, v |-> v, res |-> res]

\* the handles of this list the caller still holds as members, the foreign ones
Live    == {e \in DOMAIN heap : heap[e].list = ThisList /\ e \notin hist.removed}
Foreign == {e \in DOMAIN heap : heap[e].list = OtherList}

\* the caller's call returns: c is the list after it
Called(c, step, gone) ==
    /\ Commit(c)
    /\ ops' = ops + 1
    /\ last' = step
    /\ hist' = [hist EXCEPT !.removed = @ \cup gone]
    /\ UNCHANGED <<lifecycleVars, shardVars, maxSize, defaultTTL, loadFn, now, gets>>

\* e := &Element{Value: v, list: l} of PushFront and PushBack
allocated(c, v) == [c EXCEPT !.heap = Append(@, newElement(v, ThisList))]

CallPushFront(v) ==
    LET e == Len(heap) + 1
    IN Called(PushFront(allocated(Cur, v), e),
              ListStep("PushFront", e, Nil, v, "pushed"), {})

CallPushBack(v) ==
    LET e == Len(heap) + 1
    IN Called(PushBack(allocated(Cur, v), e),
              ListStep("PushBack", e, Nil, v, "pushed"), {})

CallInsertBefore(v, mark) ==
    LET c == InsertBefore(Cur, v, mark)
    IN IF Len(c.heap) = Len(heap)
       THEN Called(c, ListStep("InsertBefore", Nil, mark, v, "nil"), {})
       ELSE Called(c, ListStep("InsertBefore", Len(c.heap), mark, v, "inserted"), {})

CallInsertAfter(v, mark) ==
    LET c == InsertAfter(Cur, v, mark)
    IN IF Len(c.heap) = Len(heap)
       THEN Called(c, ListStep("InsertAfter", Nil, mark, v, "nil"), {})
       ELSE Called(c, ListStep("InsertAfter", Len(c.heap), mark, v, "inserted"), {})

CallMoveToFront(e) ==
    Called(MoveToFront(Cur, e), ListStep("MoveToFront", e, Nil, ZeroVal, "returned"), {})

CallMoveToBack(e) ==
    Called(MoveToBack(Cur, e), ListStep("MoveToBack", e, Nil, ZeroVal, "returned"), {})

CallMoveBefore(e, mark) ==
    Called(MoveBefore(Cur, e, mark),
           ListStep("MoveBefore", e, mark, ZeroVal, "returned"), {})

CallMoveAfter(e, mark) ==
    Called(MoveAfter(Cur, e, mark),
           ListStep("MoveAfter", e, mark, ZeroVal, "returned"), {})

\* Remove returns e.Value, the zero value when it did nothing
CallRemove(e) ==
    LET c == Remove(Cur, e)
    IN IF c = Cur
       THEN Called(c, ListStep("Remove", e, Nil, ZeroVal, "returned"), {})
       ELSE Called(c, ListStep("Remove", e, Nil, heap[e].v, "returned"), {e})

\* l1, l2 := New(), New(); l2.PushFront(v): this list is empty
InitList ==
    /\ maxSize = 1 /\ defaultTTL = ZeroTime /\ loadFn = FALSE
    /\ Unsharded
    /\ now = 1
    /\ byKey = [k \in Keys |-> Nil]
    /\ stats = [Hits |-> 0, Misses |-> 0, LoadAttempts |-> 0, LoadFailures |-> 0,
                Expirations |-> 0, Evictions |-> 0, CurrentSize |-> 0]
    /\ panicked = FALSE
    /\ gets = EmptyBag
    /\ ops = 0
    /\ heap = <<newElement(1, OtherList)>>
    /\ front = Nil
    /\ back = Nil
    /\ numElements = 0
    /\ hist = [removed |-> {}]
    /\ NoLifecycle
    /\ last = ListStep("none", Nil, Nil, ZeroVal, "none")

\* the i-th call pushes or inserts the value i
NextValue == ops + 1

\* ---- every mutator, called with handles that are members of this list
NextList ==
    /\ Budget(MaxOpsList)
    /\ \/ CallPushFront(NextValue)
       \/ CallPushBack(NextValue)
       \/ \E mark \in Live : CallInsertBefore(NextValue, mark)
       \/ \E mark \in Live : CallInsertAfter(NextValue, mark)
       \/ \E e \in Live : CallMoveToFront(e)
       \/ \E e \in Live : CallMoveToBack(e)
       \/ \E e, mark \in Live : CallMoveBefore(e, mark)
       \/ \E e, mark \in Live : CallMoveAfter(e, mark)
       \/ \E e \in Live : CallRemove(e)

SpecList == InitList /\ [][NextList]_vars

\* ---- pushes and removals of members, and every mutator called with a
\* ---- handle or a mark of the other list
NextPush ==
    /\ Budget(MaxOpsPush)
    /\ \/ CallPushFront(NextValue)
       \/ CallPushBack(NextValue)
       \/ \E e \in Live : CallRemove(e)
       \/ \E mark \in Foreign : CallInsertBefore(NextValue, mark)
       \/ \E mark \in Foreign : CallInsertAfter(NextValue, mark)
       \/ \E e \in Foreign : CallMoveToFront(e)
       \/ \E e \in Foreign : CallMoveToBack(e)
       \/ \E e \in Foreign : CallRemove(e)
       \/ \E e \in Live \cup Foreign, mark \in Foreign : CallMoveBefore(e, mark)
       \/ \E e \in Foreign, mark \in Live : CallMoveBefore(e, mark)
       \/ \E e \in Live \cup Foreign, mark \in Foreign : CallMoveAfter(e, mark)
       \/ \E e \in Foreign, mark \in Live : CallMoveAfter(e, mark)

SpecPush == InitList /\ [][NextPush]_vars

\* ---------------------------------------------------- lifecycle.State
\* the State as a value; ok is what the method returned, panicked is set by
\* the close of a closed channel
TheState ==
    [state |-> state, started |-> started, stopped |-> stopped,
     closed |-> closed, ok |-> FALSE, panicked |-> panicked]

\* State.Stop that does not look at the state
StopFromAnyState(s) ==
    [s EXCEPT !.state = stateStopped, !.stopped = TRUE, !.ok = TRUE,
              !.panicked = @ \/ s.stopped]

\* State.Start, Stop and Close, each under s.mut
Start(s) ==
    IF s.state # stateInit
    THEN [s EXCEPT !.ok = FALSE]
    ELSE [s EXCEPT !.state = stateStarted, !.started = TRUE, !.ok = TRUE,
                   !.panicked = @ \/ s.started]

Stop(s) ==
    IF s.state # stateStarted
    THEN [s EXCEPT !.ok = FALSE]
    ELSE [s EXCEPT !.state = stateStopped, !.stopped = TRUE, !.ok = TRUE,
                   !.panicked = @ \/ s.stopped]

Close(s) ==
    IF s.state # stateStopped
    THEN [s EXCEPT !.ok = FALSE]
    ELSE [s EXCEPT !.state = stateClosed, !.closed = TRUE, !.ok = TRUE,
                   !.panicked = @ \/ s.closed]

\* State.IfRunning, under the read lock: whether fn is run
IfRunning(s) == [s EXCEPT !.ok = (s.state = stateStarted)]

StateBecomes(s) ==
    /\ state' = s.state
    /\ started' = s.started
    /\ stopped' = s.stopped
    /\ closed' = s.closed
    /\ panicked' = s.panicked

\* a call of a State method by any goroutine: the methods hold s.mut from
\* the first to the last statement, so a call is one step
StateStep(op, res) == [op |-> op, res |-> res]

StateCall(op, s) ==
    /\ StateBecomes(s)
    /\ ops' = ops + 1
    /\ last' = StateStep(op, s.ok)
    /\ hist' = [hist EXCEPT !.calls[op] = @ + 1,
                            !.trues[op] = @ + (IF s.ok THEN 1 ELSE 0)]
    /\ UNCHANGED <<shardVars, maxSize, defaultTTL, loadFn, now, gets, byKey,
                   heap, front, back, numElements, stats, signalled, loop,
                   mut, callers>>

StateStart     == StateCall("Start", Start(TheState))
StateStop      == StateCall("Stop", Stop(TheState))
StateClose     == StateCall("Close", Close(TheState))
StateIfRunning == StateCall("IfRunning", IfRunning(TheState))

StateMethods == {"Start", "Stop", "Close", "IfRunning"}

\* everything but the lifecycle package, at rest
NoCache ==
    /\ maxSize = 1 /\ defaultTTL = ZeroTime /\ loadFn = FALSE
    /\ Unsharded
    /\ now = 1
    /\ byKey = [k \in Keys |-> Nil]
    /\ heap = <<>> /\ front = Nil /\ back = Nil /\ numElements = 0
    /\ stats = [Hits |-> 0, Misses |-> 0, LoadAttempts |-> 0, LoadFailures |-> 0,
                Expirations |-> 0, Evictions |-> 0, CurrentSize |-> 0]
    /\ panicked = FALSE
    /\ gets = EmptyBag
    /\ ops = 0

\* NewState()
InitState ==
    /\ NoCache /\ NoCallers
    /\ state = stateInit
    /\ started = FALSE /\ stopped = FALSE /\ closed = FALSE
    /\ signalled = [buf |-> 0, closed |-> FALSE]
    /\ loop = "none"
    /\ hist = [calls |-> [m \in StateMethods |-> 0],
               trues |-> [m \in StateMethods |-> 0]]
    /\ last = StateStep("none", FALSE)

\* ---- one State, its methods called by any goroutines in any order
NextState ==
    /\ Budget(MaxOpsState)
    /\ \/ StateStart
       \/ StateStop
       \/ StateClose
       \/ StateIfRunning

SpecState == InitState /\ [][NextState]_vars

\* ---- one State, its methods called by goroutines that take s.mut as
\* ---- sync.RWMutex gives it, IfRunning also from inside a callback
Goroutines == 1..NumGoroutines
Idle == [op |-> "none", st |-> "idle", depth |-> 0]

\* a step of goroutine g in a State method; depth is the number of read locks
\* g held when it made the call, res what the call returned
MutStep(op, g, depth, res) == [op |-> op, g |-> g, depth |-> depth, res |-> res]

\* sync.RWMutex.RLock returns at once unless a writer has announced itself
rLockGranted(m) == ~m.pending

WriterMethods == {"Start", "Stop", "Close"}

Body(op, s) ==
    IF op = "Start" THEN Start(s) ELSE IF op = "Stop" THEN Stop(s) ELSE Close(s)

MutRest ==
    UNCHANGED <<shardVars, maxSize, defaultTTL, loadFn, now, gets, byKey, heap,
                front, back, numElements, stats, signalled, loop, hist>>

\* g calls Start, Stop or Close and reaches s.mut.Lock()
CallWriter(g, op) ==
    /\ callers[g].st = "idle"
    /\ ops' = ops + 1
    /\ callers' = [callers EXCEPT ![g] = [op |-> op, st |-> "Lock", depth |-> 0]]
    /\ last' = MutStep(op, g, 0, FALSE)
    /\ UNCHANGED <<state, started, stopped, closed, panicked, mut>>
    /\ MutRest

\* Lock: g has the writers' mutex and announces itself to the readers
Announce(g) ==
    /\ callers[g].st = "Lock" /\ ~mut.pending
    /\ mut' = [mut EXCEPT !.pending = TRUE]
    /\ callers' = [callers EXCEPT ![g].st = "pending"]
    /\ last' = MutStep("Lock", g, 0, FALSE)
    /\ UNCHANGED <<state, started, stopped, closed, panicked, ops>>
    /\ MutRest

\* the last reader has left: g runs the method and unlocks, which lets in the
\* readers that were blocked meanwhile
RunWriter(g) ==
    /\ callers[g].st = "pending" /\ mut.readers = 0
    /\ LET s == Body(callers[g].op, TheState)
           blocked == {h \in Goroutines : callers[h].st = "RLock"}
       IN /\ StateBecomes(s)
          /\ mut' = [readers |-> Cardinality(blocked), pending |-> FALSE]
          /\ callers' = [h \in Goroutines |->
                           IF h = g THEN Idle
                           ELSE IF h \in blocked
                           THEN [callers[h] EXCEPT !.st = "granted"]
                           ELSE callers[h]]
          /\ last' = MutStep(callers[g].op, g, 0, s.ok)
    /\ UNCHANGED ops
    /\ MutRest

\* g calls IfRunning, from outside or from inside a callback, and reaches
\* s.mut.RLock()
CallIfRunning(g) ==
    /\ \/ callers[g].st = "idle"
       \/ callers[g].st = "fn" /\ callers[g].depth < MaxDepth
    /\ ops' = ops + 1
    /\ IF rLockGranted(mut)
       THEN /\ mut' = [mut EXCEPT !.readers = @ + 1]
            /\ callers' = [callers EXCEPT ![g].op = "IfRunning", ![g].st = "granted"]
       ELSE /\ mut' = mut
            /\ callers' = [callers EXCEPT ![g].op = "IfRunning", ![g].st = "RLock"]
    /\ last' = MutStep("RLock", g, callers[g].depth, FALSE)
    /\ UNCHANGED <<state, started, stopped, closed, panicked>>
    /\ MutRest

\* with the read lock: the state is not Running, IfRunning unlocks and returns
\* false; or the callback starts
CheckRunning(g) ==
    /\ callers[g].st = "granted"
    /\ IF IfRunning(TheState).ok
       THEN /\ callers' = [callers EXCEPT ![g].st = "fn", ![g].depth = @ + 1]
            /\ mut' = mut
            /\ last' = MutStep("fn", g, callers[g].depth, TRUE)
       ELSE /\ callers' = [callers EXCEPT ![g] =
                             IF callers[g].depth = 0 THEN Idle
                             ELSE [@ EXCEPT !.st = "fn"]]
            /\ mut' = [mut EXCEPT !.readers = @ - 1]
            /\ last' = MutStep("IfRunning", g, callers[g].depth, FALSE)
    /\ UNCHANGED <<state, started, stopped, closed, panicked, ops>>
    /\ MutRest

\* the callback returns, IfRunning unlocks and returns true
FnReturns(g) ==
    /\ callers[g].st = "fn"
    /\ mut' = [mut EXCEPT !.readers = @ - 1]
    /\ callers' = [callers EXCEPT ![g] =
                     IF callers[g].depth = 1 THEN Idle
                     ELSE [@ EXCEPT !.depth = @ - 1]]
    /\ last' = MutStep("IfRunning", g, callers[g].depth - 1, TRUE)
    /\ UNCHANGED <<state, started, stopped, closed, panicked, ops>>
    /\ MutRest

\* NewState(), any number of goroutines about to call its methods
InitReentrant ==
    /\ NoCache
    /\ state = stateInit
    /\ started = FALSE /\ stopped = FALSE /\ closed = FALSE
    /\ signalled = [buf |-> 0, closed |-> FALSE]
    /\ loop = "none"
    /\ mut = [readers |-> 0, pending |-> FALSE]
    /\ callers = [g \in Goroutines |-> Idle]
    /\ hist = <<>>
    /\ last = MutStep("none", 0, 0, FALSE)

NextReentrant ==
    \/ \E g \in Goroutines, op \in WriterMethods :
          Budget(MaxOpsReentrant) /\ CallWriter(g, op)
    \/ \E g \in Goroutines : Announce(g)
    \/ \E g \in Goroutines : RunWriter(g)
    \/ \E g \in Goroutines : Budget(MaxOpsReentrant) /\ CallIfRunning(g)
    \/ \E g \in Goroutines : CheckRunning(g)
    \/ \E g \in Goroutines : FnReturns(g)

SpecReentrant == InitReentrant /\ [][NextReentrant]_vars

\* every goroutine that can run does, and every callback returns
SpecReentrantLive ==
    /\ SpecReentrant
    /\ WF_vars(\E g \in Goroutines : Announce(g))
    /\ WF_vars(\E g \in Goroutines : RunWriter(g))
    /\ WF_vars(\E g \in Goroutines : CheckRunning(g))
    /\ WF_vars(\E g \in Goroutines : FnReturns(g))

\* ------------------------------------------------- lifecycle.OnDemandJob
\* capacity of make(chan struct{}, 1)
SignalledCap == 1

\* the send of Signal on a channel that never fills
trySendUnbounded(ch) == [ch EXCEPT !.buf = @ + 1]

\* select { case j.signalled <- struct{}{}: default: }
trySend(ch) == IF ch.buf < SignalledCap THEN [ch EXCEPT !.buf = @ + 1] ELSE ch

JobStep(op, res) == [op |-> op, res |-> res]
Returns(ok) == IF ok THEN "true" ELSE "false"

JobRest ==
    UNCHANGED <<shardVars, maxSize, defaultTTL, loadFn, now, gets, byKey,
                heap, front, back, numElements, stats, mut, callers>>

JobRestUnlocked ==
    UNCHANGED <<shardVars, maxSize, defaultTTL, loadFn, now, gets, byKey,
                heap, front, back, numElements, stats>>

\* OnDemandJob.Signal: IfRunning holds the read lock around the send
Signal ==
    LET ch == trySend(signalled)
    IN /\ ops' = ops + 1
       /\ IF state # stateStarted
          THEN /\ last' = JobStep("Signal", "not running")
               /\ hist' = [hist EXCEPT !.signals = @ + 1]
               /\ UNCHANGED <<signalled, panicked>>
          ELSE IF signalled.closed
          THEN /\ last' = JobStep("Signal", "panic")
               /\ hist' = [hist EXCEPT !.signals = @ + 1]
               /\ panicked' = TRUE
               /\ UNCHANGED signalled
          ELSE /\ signalled' = ch
               /\ last' = JobStep("Signal", IF ch = signalled THEN "dropped" ELSE "sent")
               /\ hist' = [hist EXCEPT !.signals = @ + 1,
                                       !.sent = @ + (IF ch = signalled THEN 0 ELSE 1)]
               /\ UNCHANGED panicked
       /\ UNCHANGED <<state, started, stopped, closed, loop>>
       /\ JobRest

\* OnDemandJob.Stop
JobStop ==
    LET s == Stop(TheState)
    IN /\ StateBecomes(s)
       /\ ops' = ops + 1
       /\ last' = JobStep("Stop", Returns(s.ok))
       /\ UNCHANGED <<hist, signalled, loop>>
       /\ JobRest

\* the goroutine's select takes case <-j.state.Stopped()
LoopStopped ==
    /\ loop = "select" /\ stopped
    /\ loop' = "exited"
    /\ last' = JobStep("loop", "stopped")
    /\ UNCHANGED <<ops, hist, signalled, state, started, stopped, closed, panicked>>
    /\ JobRest

\* the goroutine's select takes case <-j.signalled and calls loopFn
LoopSignalled ==
    /\ loop = "select" /\ signalled.buf > 0
    /\ signalled' = [signalled EXCEPT !.buf = @ - 1]
    /\ loop' = "loopFn"
    /\ hist' = [hist EXCEPT !.executions = @ + 1]
    /\ last' = JobStep("loop", "loopFn")
    /\ UNCHANGED <<ops, state, started, stopped, closed, panicked>>
    /\ JobRest

\* loopFn returns
LoopFnReturns ==
    /\ loop = "loopFn"
    /\ loop' = "select"
    /\ last' = JobStep("loop", "returned")
    /\ UNCHANGED <<ops, hist, signalled, state, started, stopped, closed, panicked>>
    /\ JobRest

\* close(j.signalled)
LoopCloseSignalled ==
    /\ loop = "exited"
    /\ signalled' = [signalled EXCEPT !.closed = TRUE]
    /\ panicked' = (panicked \/ signalled.closed)
    /\ loop' = "closing"
    /\ last' = JobStep("loop", "closed signalled")
    /\ UNCHANGED <<ops, hist, state, started, stopped, closed>>
    /\ JobRest

\* j.state.Close()
LoopCloseState ==
    LET s == Close(TheState)
    IN /\ loop = "closing"
       /\ StateBecomes(s)
       /\ loop' = "done"
       /\ last' = JobStep("loop", "closed state")
       /\ UNCHANGED <<ops, hist, signalled>>
       /\ JobRest

\* StartOnDemandJob(loopFn) has returned: the State is Running, the goroutine
\* is at its select
InitJob ==
    /\ NoCache /\ NoCallers
    /\ state = stateStarted
    /\ started = TRUE /\ stopped = FALSE /\ closed = FALSE
    /\ signalled = [buf |-> 0, closed |-> FALSE]
    /\ loop = "select"
    /\ hist = [signals |-> 0, sent |-> 0, executions |-> 0]
    /\ last = JobStep("none", "none")

\* ---- one job: Signal and Stop called by any goroutines, the job's goroutine
NextJob ==
    \/ Budget(MaxOpsJob) /\ Signal
    \/ Budget(MaxOpsJob) /\ JobStop
    \/ LoopStopped
    \/ LoopSignalled
    \/ LoopFnReturns
    \/ LoopCloseSignalled
    \/ LoopCloseState

SpecJob == InitJob /\ [][NextJob]_vars

\* the scheduler runs the job's goroutine when its select can take a signal
SpecJobLive == SpecJob /\ WF_vars(LoopSignalled)

\* ---- the same job, with Signal and Stop taking the State's mutex step by
\* ---- step: Signal read-locks, looks at the state, sends and unlocks, Stop
\* ---- locks, waits for the readers, stops and unlocks
\* a Lock that does not wait for the readers
lockIgnoresReaders(m) == TRUE

\* Lock returns to an announced writer once no reader holds the mutex
lockGranted(m) == m.readers = 0

\* Signal: IfRunning reaches s.mut.RLock()
SignalRLock(g) ==
    /\ callers[g].st = "idle"
    /\ ops' = ops + 1
    /\ IF rLockGranted(mut)
       THEN /\ mut' = [mut EXCEPT !.readers = @ + 1]
            /\ callers' = [callers EXCEPT ![g].op = "Signal", ![g].st = "granted"]
       ELSE /\ mut' = mut
            /\ callers' = [callers EXCEPT ![g].op = "Signal", ![g].st = "RLock"]
    /\ last' = JobStep("RLock", Returns(rLockGranted(mut)))
    /\ hist' = [hist EXCEPT !.signals = @ + 1]
    /\ UNCHANGED <<state, started, stopped, closed, panicked, signalled, loop>>
    /\ JobRestUnlocked

\* Signal: IfRunning finds the state not Running, unlocks and returns; or it
\* calls the function that sends
SignalCheck(g) ==
    /\ callers[g].op = "Signal" /\ callers[g].st = "granted"
    /\ IF IfRunning(TheState).ok
       THEN /\ callers' = [callers EXCEPT ![g].st = "fn"]
            /\ mut' = mut
            /\ last' = JobStep("IfRunning", "running")
       ELSE /\ callers' = [callers EXCEPT ![g] = Idle]
            /\ mut' = [mut EXCEPT !.readers = @ - 1]
            /\ last' = JobStep("Signal", "not running")
    /\ UNCHANGED <<state, started, stopped, closed, panicked, signalled, loop,
                   ops, hist>>
    /\ JobRestUnlocked

\* Signal: the select with the send and the default case, then RUnlock
SignalSend(g) ==
    /\ callers[g].op = "Signal" /\ callers[g].st = "fn"
    /\ LET ch == trySend(signalled)
       IN IF signalled.closed
          THEN /\ last' = JobStep("Signal", "panic")
               /\ panicked' = TRUE
               /\ UNCHANGED <<signalled, hist>>
          ELSE /\ signalled' = ch
               /\ last' = JobStep("Signal", IF ch = signalled THEN "dropped" ELSE "sent")
               /\ hist' = [hist EXCEPT !.sent = @ + (IF ch = signalled THEN 0 ELSE 1)]
               /\ UNCHANGED panicked
    /\ callers' = [callers EXCEPT ![g] = Idle]
    /\ mut' = [mut EXCEPT !.readers = @ - 1]
    /\ UNCHANGED <<state, started, stopped, closed, loop, ops>>
    /\ JobRestUnlocked

\* OnDemandJob.Stop: State.Stop reaches s.mut.Lock()
StopLock(g) ==
    /\ callers[g].st = "idle"
    /\ ops' = ops + 1
    /\ callers' = [callers EXCEPT ![g].op = "Stop", ![g].st = "Lock"]
    /\ last' = JobStep("Lock", "called")
    /\ UNCHANGED <<state, started, stopped, closed, panicked, signalled, loop,
                   mut, hist>>
    /\ JobRestUnlocked

StopAnnounce(g) ==
    /\ callers[g].op = "Stop" /\ callers[g].st = "Lock" /\ ~mut.pending
    /\ mut' = [mut EXCEPT !.pending = TRUE]
    /\ callers' = [callers EXCEPT ![g].st = "pending"]
    /\ last' = JobStep("Lock", "announced")
    /\ UNCHANGED <<state, started, stopped, closed, panicked, signalled, loop,
                   ops, hist>>
    /\ JobRestUnlocked

\* State.Stop with the lock, and the unlock that lets the blocked readers in
StopRuns(g) ==
    /\ callers[g].op = "Stop" /\ callers[g].st = "pending" /\ lockGranted(mut)
    /\ LET s == Stop(TheState)
           blocked == {h \in Goroutines : callers[h].st = "RLock"}
       IN /\ StateBecomes(s)
          /\ mut' = [readers |-> mut.readers + Cardinality(blocked), pending |-> FALSE]
          /\ callers' = [h \in Goroutines |->
                           IF h = g THEN Idle
                           ELSE IF h \in blocked
                           THEN [callers[h] EXCEPT !.st = "granted"]
                           ELSE callers[h]]
          /\ last' = JobStep("Stop", Returns(s.ok))
    /\ UNCHANGED <<signalled, loop, ops, hist>>
    /\ JobRestUnlocked

\* j.state.Close() by the job's goroutine, once it can take the mutex
LoopCloseStateLocked ==
    /\ ~mut.pending /\ lockGranted(mut)
    /\ LoopCloseState

InitJobSteps ==
    /\ NoCache
    /\ mut = [readers |-> 0, pending |-> FALSE]
    /\ callers = [g \in Goroutines |-> Idle]
    /\ state = stateStarted
    /\ started = TRUE /\ stopped = FALSE /\ closed = FALSE
    /\ signalled = [buf |-> 0, closed |-> FALSE]
    /\ loop = "select"
    /\ hist = [signals |-> 0, sent |-> 0, executions |-> 0]
    /\ last = JobStep("none", "none")

NextJobSteps ==
    \/ \E g \in Goroutines : Budget(MaxOpsJobSteps) /\ SignalRLock(g)
    \/ \E g \in Goroutines : SignalCheck(g)
    \/ \E g \in Goroutines : SignalSend(g)
    \/ \E g \in Goroutines : Budget(MaxOpsJobSteps) /\ StopLock(g)
    \/ \E g \in Goroutines : StopAnnounce(g)
    \/ \E g \in Goroutines : StopRuns(g)
    \/ LoopStopped
    \/ LoopSignalled
    \/ LoopFnReturns
    \/ LoopCloseSignalled
    \/ LoopCloseStateLocked

SpecJobSteps == InitJobSteps /\ [][NextJobSteps]_vars

\* every goroutine inside Signal or Stop that can run does
SpecJobStepsLive ==
    /\ SpecJobSteps
    /\ WF_vars(\E g \in Goroutines : SignalCheck(g))
    /\ WF_vars(\E g \in Goroutines : SignalSend(g))
    /\ WF_vars(\E g \in Goroutines : StopAnnounce(g))
    /\ WF_vars(\E g \in Goroutines : StopRuns(g))

\* ------------------------------------------------------ reading the list
RECURSIVE walkNext(_, _, _)
walkNext(h, e, fuel) ==
    IF e = Nil \/ fuel = 0 THEN <<>> ELSE <<e>> \o walkNext(h, h[e].next, fuel - 1)

RECURSIVE walkPrev(_, _, _)
walkPrev(h, e, fuel) ==
    IF e = Nil \/ fuel = 0 THEN <<>> ELSE <<e>> \o walkPrev(h, h[e].prev, fuel - 1)

\* Front(), Next(), ... until nil; Back(), Prev(), ... until nil
Forward  == walkNext(heap, front, Len(heap))
Backward == walkPrev(heap, back, Len(heap))
Range(sq) == {sq[i] : i \in DOMAIN sq}
Listed == Range(Forward) \cup Range(Backward)

\* the keys with a populated entry in the map
Present == {k \in Keys : byKey[k] # Nil /\ ~heap[byKey[k]].loading}

Loading(k) == {g \in GetsInProgress : g.st = "loading" /\ g.k = k}
RECURSIVE SumTo(_, _)
SumTo(f, n) == IF n = 0 THEN 0 ELSE f[n] + SumTo(f, n - 1)
SumOver(f) == SumTo(f, NumKeys)

\* ----------------------------------------------------------------- claims

\* C1: at most one load-provider invocation is in flight for any key at any
\* time, in every interleaving of Get, Put and PutWithTTL.
C1_OneLoadInFlightPerKey ==
    \A k \in Keys : Cardinality(Loading(k)) <= 1

\* the key whose last touch is the oldest among the keys of S
LRUKey(S) == CHOOSE k \in S : \A j \in S : hist.touched[k] <= hist.touched[j]

\* C2: when a key is added to a cache that is at capacity, the one entry
\* removed is the least recently touched of the entries present, and every
\* other entry stays in the map.
C2_EvictsLeastRecentlyTouched ==
    [][stats'.Evictions # stats.Evictions =>
         /\ stats'.Evictions = stats.Evictions + 1
         /\ {k \in Present : byKey'[k] = Nil} = {LRUKey(Present)}]_vars

\* k was only ever read, its loads succeeded, it was never evicted or expired
OnlyLoaded(k) ==
    /\ hist.puts[k] = 0 /\ hist.failed[k] = 0
    /\ hist.evicted[k] = 0 /\ hist.expired[k] = 0

\* nothing was ever done to a key other than k
OnlyKey(k) ==
    \A j \in Keys \ {k} : hist.calls[j] = 0 /\ hist.returned[j] = 0 /\ hist.puts[j] = 0

GetReturnedValue == last.res \in {"hit", "loaded"}

\* C3: on a cache with a load provider, concurrent Gets of one absent key
\* whose load succeeds (no put, eviction or expiry of the key): the provider
\* is invoked exactly once, every Get returns the loaded value, LoadAttempts
\* grows by 1 and Hits by N-1.
C3_SingleFlight ==
    \A k \in Keys :
        (loadFn /\ OnlyLoaded(k)) =>
            /\ hist.calls[k] <= 1
            /\ (GetReturnedValue /\ last.k = k) =>
                   /\ byKey[k] # Nil
                   /\ last.v = heap[byKey[k]].v
                   /\ last.v = hist.written[k]
            /\ hist.returned[k] >= 1 => hist.calls[k] = 1
            /\ (OnlyKey(k) /\ hist.returned[k] >= 1) =>
                   /\ stats.LoadAttempts = 1
                   /\ stats.Hits = hist.returned[k] - 1

\* three Gets of one key were in flight together: the loader has returned,
\* one waiter has returned with a hit, one is still to wake
C3_Witness ==
    \E k \in Keys :
        /\ OnlyLoaded(k) /\ OnlyKey(k)
        /\ hist.returned[k] = 2 /\ hist.cancelled = 0
        /\ last.op = "Wake" /\ last.res = "hit" /\ last.k = k
        /\ \E g \in GetsInProgress : g.st = "waiting" /\ g.k = k
        /\ stats.Hits = 1 /\ stats.LoadAttempts = 1

\* C4: every entry in the recency list is the entry stored in the key map
\* under its own key, and no key has more than one entry in the list.
C4_ListedEntriesAreMapped ==
    /\ \A e \in Listed : byKey[heap[e].k] = e
    /\ \A e1, e2 \in Listed : heap[e1].k = heap[e2].k => e1 = e2

\* C5: every entry in the key map is either in the recency list with no
\* pending load signal, or a loading placeholder that is not in the list.
C5_ListedXorLoading ==
    \A k \in Keys :
        byKey[k] # Nil =>
            \/ byKey[k] \in Listed /\ ~heap[byKey[k]].loading
            \/ byKey[k] \notin Listed /\ heap[byKey[k]].loading

\* the last step wrote an entry: Put, PutWithTTL or a load result
WroteEntry == last.res \in {"done", "zero", "loaded"}

\* the entry written by the last step is in the map under its key and listed
WrittenEntryKept == byKey[last.k] = last.e /\ last.e \in Listed

\* C6: eviction happens only when the list is longer than the capacity after
\* an insertion, and the entry just put or loaded is never the one evicted.
C6_EvictionSparesTouchedEntry ==
    [][/\ stats'.Evictions # stats.Evictions =>
             numElements + 1 > maxSize /\ numElements' = maxSize
       /\ WroteEntry' => WrittenEntryKept']_vars

\* C7: for capacity >= 1, Statistics().CurrentSize <= capacity after every
\* operation, in every sequence and interleaving of Get, Put and PutWithTTL.
C7_SizeWithinCapacity == Statistics.CurrentSize <= maxSize

\* a put into a full cache has evicted and left the cache full
C7_Witness ==
    /\ WroteEntry /\ stats.Evictions >= 1
    /\ Statistics.CurrentSize = maxSize

\* C8: a Get(k) issued after Put(k, v) returned yields v (the last value put
\* or loaded for k) unless k was evicted or expired in between.
C8_GetYieldsLastWrite ==
    (last.op = "Get" /\ hist.written[last.k] # ZeroVal) =>
        \/ last.res = "hit" /\ last.v = hist.written[last.k]
        \/ last.res = "waiting"

GetsReturned == SumOver(hist.returned)

\* C9: whenever no Get is in progress, Hits + Misses + LoadFailures equals the
\* number of Gets that returned without a cancellation error.
C9_CountersCoverGets ==
    gets = EmptyBag =>
        stats.Hits + stats.Misses + stats.LoadFailures = GetsReturned

\* C9 as amended: the Gets that returned the value of their own successful
\* load are counted by none of the three counters.
C9_CountersCoverGetsButOwnLoads ==
    gets = EmptyBag =>
        stats.Hits + stats.Misses + stats.LoadFailures + hist.ownLoads = GetsReturned

\* a hit, a failed load and a successful load have all returned
C9_Witness ==
    /\ gets = EmptyBag
    /\ stats.Hits >= 1 /\ hist.ownLoads >= 1
    /\ stats.Misses + stats.LoadFailures >= 1

ZeroExpiryPut == last.op = "PutWithTTL" /\ last.res = "zero" /\ defaultTTL # 0

\* C10: PutWithTTL(k, v, zero expiry) on a cache with a non-zero default TTL
\* stores k with no expiry.
C10_ZeroExpiryOverridesDefault ==
    ZeroExpiryPut => heap[last.e].expiry = ZeroTime

\* C10 as amended: the entry gets expiry now + default TTL, as with Put, and
\* a Get hits an entry only while the clock has not passed its expiry.
C10_ZeroExpiryTakesDefault ==
    /\ ZeroExpiryPut => heap[last.e].expiry = now + defaultTTL
    /\ (last.op \in {"Get", "Wake"} /\ last.res = "hit") =>
           heap[last.e].expiry = ZeroTime \/ now <= heap[last.e].expiry

\* PutWithTTL with a zero expiry has just overwritten an entry
C10_Witness ==
    /\ ZeroExpiryPut /\ hist.puts[last.k] >= 2 /\ now > 1
    /\ byKey[last.k] = last.e

\* C11: after Put(k, v) entry k has no expiry on a cache with no default
\* TTL and expiry now + default TTL on a cache with one, whatever expiry the
\* entry had before.
C11_PutReplacesExpiry ==
    last.op = "Put" =>
        heap[last.e].expiry =
            IF defaultTTL # 0 THEN now + defaultTTL ELSE ZeroTime

\* C12: a written entry (Put, PutWithTTL, load result) stores a supplied
\* non-zero expiry unchanged, and now + default TTL when the supplied expiry
\* is zero and a default TTL is configured.
C12_DefaultTTLIffZeroExpiry ==
    WroteEntry =>
        /\ last.expiry # ZeroTime => heap[last.e].expiry = last.expiry
        /\ (last.expiry = ZeroTime /\ defaultTTL # 0) =>
               heap[last.e].expiry = now + defaultTTL

\* a load result with its own expiry was stored on a cache with a default TTL
C12_Witness ==
    /\ defaultTTL # 0 /\ last.op = "LoadReturn" /\ last.res = "loaded"
    /\ last.expiry # ZeroTime /\ last.expiry # now + defaultTTL
    /\ byKey[last.k] = last.e

\* C13: a Get that finds an entry with a non-zero expiry drops it as expired
\* if and only if now is strictly after the expiry; at now = expiry it hits.
C13_ExpiredIffClockAfterExpiry ==
    [][\A k \in Keys :
         (/\ last'.op \in {"Get", "Wake"} /\ last'.k = k
          /\ byKey[k] # Nil
          /\ ~heap[byKey[k]].loading
          /\ heap[byKey[k]].expiry # ZeroTime) =>
             IF now > heap[byKey[k]].expiry
             THEN /\ stats'.Expirations = stats.Expirations + 1
                  /\ last'.res # "hit"
                  /\ byKey'[k] # byKey[k]
             ELSE /\ stats'.Expirations = stats.Expirations
                  /\ last'.res = "hit"
                  /\ last'.e = byKey[k]]_vars

\* a Get has hit an entry whose expiry is the current instant
C13_Witness ==
    /\ last.op = "Get" /\ last.res = "hit"
    /\ heap[last.e].expiry = now
    /\ stats.Hits = 1 /\ stats.Expirations = 0

\* one Get loaded k, every other Get of k was cancelled, nothing else ran
LoaderAlone(k) ==
    /\ loadFn /\ OnlyKey(k) /\ OnlyLoaded(k)
    /\ hist.calls[k] = 1 /\ hist.returned[k] = 1 /\ hist.ownLoads = 1
    /\ gets = EmptyBag

\* C14: a cancelled waiter changes no counter and nothing of the cache, the
\* load in flight goes on, and after one loader and any number of cancelled
\* waiters LoadAttempts = 1, CurrentSize = 1, Hits = Misses = LoadFailures = 0
\* and k holds the loaded value.
C14_CancelledWaiterLeavesLoad ==
    [][/\ last'.op = "Cancel" =>
             /\ stats' = stats /\ byKey' = byKey /\ heap' = heap
             /\ numElements' = numElements
             /\ \A g \in GetsInProgress : g.st = "loading" => BagIn(g, gets')
       /\ \A k \in Keys :
             LoaderAlone(k)' =>
                 /\ Statistics'.LoadAttempts = 1 /\ Statistics'.CurrentSize = 1
                 /\ Statistics'.Hits = 0 /\ Statistics'.Misses = 0
                 /\ Statistics'.LoadFailures = 0
                 /\ byKey'[k] # Nil
                 /\ heap'[byKey'[k]].v = hist'.written[k]]_vars

\* two waiters were cancelled and the loader has stored its value
C14_Witness ==
    /\ \E k \in Keys : LoaderAlone(k)
    /\ hist.cancelled = 2
    /\ stats.LoadAttempts = 1 /\ numElements = 1

\* C15: a provider NotFound increments Misses and nothing else, any other
\* provider error increments LoadFailures and nothing else; the Get returns
\* the provider's error.
C15_NotFoundIsMissOtherIsFailure ==
    [][last'.op = "LoadReturn" =>
         /\ last'.res = "ErrNotFound" => stats' = [stats EXCEPT !.Misses = @ + 1]
         /\ last'.res = "error" => stats' = [stats EXCEPT !.LoadFailures = @ + 1]]_vars

\* a provider NotFound and another provider error have both been returned
C15_Witness ==
    /\ last.op = "LoadReturn" /\ last.res = "error"
    /\ stats.Misses = 1 /\ stats.LoadFailures = 1 /\ stats.LoadAttempts = 2

\* C16: when a Get returns a load error, k has no entry in the map and no
\* entry in the list (so CurrentSize does not count it, and the next Get(k)
\* finds nothing and loads again).
C16_FailedLoadLeavesNoEntry ==
    (last.op = "LoadReturn" /\ last.res \in {"ErrNotFound", "error"}) =>
        /\ byKey[last.k] = Nil
        /\ \A e \in Listed : heap[e].k # last.k

Abs(x) == IF x < 0 THEN -x ELSE x

\* C17: shard(k) yields index abs(hash(k)) mod shardCount, which lies in
\* 0..shardCount-1, for every integer the hasher can return.
C17_ShardIndexInRange ==
    last.op = "shard" =>
        /\ last.res = "routed"
        /\ last.e = Abs(last.v) % Len(shards)
        /\ last.e \in 0..(Len(shards) - 1)

\* C18: every shard of a sharded cache of capacity C has capacity C: it
\* evicts only when a put takes its own size over C, each shard's
\* CurrentSize <= C and the aggregate CurrentSize <= N * C.
C18_EveryShardHasFullCapacity ==
    /\ [](/\ \A i \in DOMAIN shards :
                StatisticsOf(shards[i]).CurrentSize <= maxSize
          /\ ShardedStatistics.CurrentSize <= Len(shards) * maxSize)
    /\ [][\A i \in DOMAIN shards :
             shards'[i].stats.Evictions # shards[i].stats.Evictions =>
                 /\ shards'[i].stats.Evictions = shards[i].stats.Evictions + 1
                 /\ shards[i].numElements = maxSize
                 /\ shards'[i].numElements = maxSize]_vars

\* two shards are full at once: the cache holds more than C entries
C18_Witness ==
    /\ \E i, j \in DOMAIN shards :
          /\ i # j
          /\ shards[i].numElements = maxSize
          /\ shards[j].numElements = maxSize
    /\ ShardedStatistics.CurrentSize > maxSize

StatisticsFields ==
    {"Hits", "Misses", "LoadAttempts", "LoadFailures", "Expirations",
     "Evictions", "CurrentSize"}

\* field f summed over the first n shards
RECURSIVE FieldSum(_, _)
FieldSum(f, n) ==
    IF n = 0 THEN 0 ELSE StatisticsOf(shards[n])[f] + FieldSum(f, n - 1)

\* the statistics of the shards
StatisticsAtHand == {StatisticsOf(shards[i]) : i \in DOMAIN shards}

\* C19: Statistics() of the sharded cache is the field-by-field sum of the
\* shards' Statistics(); Add is the per-field sum, commutative, associative,
\* with the zero record as identity (on the statistics of any two shards and
\* of the whole cache).
C19_ShardedStatisticsIsSum ==
    LET all == ShardedStatistics
        S   == StatisticsAtHand
    IN /\ \A f \in StatisticsFields : all[f] = FieldSum(f, Len(shards))
       /\ \A a, b \in S :
             /\ \A f \in StatisticsFields : Add(a, b)[f] = a[f] + b[f]
             /\ Add(a, b) = Add(b, a)
             /\ Add(Add(a, b), all) = Add(a, Add(b, all))
       /\ \A a \in S \cup {all} :
             Add(a, ZeroStatistics) = a /\ Add(ZeroStatistics, a) = a

\* two shards have counted something: a miss in one, an eviction in the other
C19_Witness ==
    \E i, j \in DOMAIN shards :
        /\ i # j
        /\ StatisticsOf(shards[i]).Misses = 1
        /\ StatisticsOf(shards[j]).Evictions = 1
        /\ StatisticsOf(shards[j]).CurrentSize = 1
        /\ ShardedStatistics.Misses = 1 /\ ShardedStatistics.Evictions = 1

\* the configurations the construction is to refuse
BadConfiguration ==
    \/ maxSize <= 0
    \/ shards # <<>> /\ hashFn = NilHash

\* C20: New reports an error for a capacity <= 0 and for sharding without a
\* hasher, and no operation panics because of such a configuration.
C20_NewRejectsBadConfiguration ==
    BadConfiguration => NewReportsError /\ ~panicked

\* the six event counters of Statistics (CurrentSize is a gauge)
Counters ==
    {"Hits", "Misses", "LoadAttempts", "LoadFailures", "Expirations", "Evictions"}

\* C21: no step of any interleaving of Get, Put, PutWithTTL, load results,
\* cancellations and clock ticks lowers one of the six counters.
C21_CountersNeverDecrease ==
    [][\A f \in Counters : stats'[f] >= stats[f]]_vars

\* a Get has met an expired entry: the expiration and what followed are counted
C21_Witness ==
    /\ last.op = "Get"
    /\ stats.Expirations = 1
    /\ stats.Hits + stats.Misses + stats.LoadAttempts >= 1

\* C28: a value that a completed Put or PutWithTTL stored for k, and that was
\* neither evicted, nor expired, nor replaced since, is the value the map holds
\* for k; a load of k that fails does not take it away.
C28_PutValueStaysUntilReplaced ==
    \A k \in Keys :
        hist.puts[k] > 0 /\ hist.written[k] # ZeroVal
            => byKey[k] # Nil /\ heap[byKey[k]].v = hist.written[k]

\* the keys whose map entry holds a value: a loaded or put entry, or a
\* placeholder that a Put has filled while its load was still running
Populated ==
    {k \in Keys : /\ byKey[k] # Nil
                  /\ ~heap[byKey[k]].loading \/ heap[byKey[k]].v # ZeroVal}

\* C30: CurrentSize is the number of keys whose map entry is populated.
C30_CurrentSizeCountsPopulatedKeys ==
    Statistics.CurrentSize = Cardinality(Populated)

\* ---- the generic list
\* Front(), Next(), ... and Back(), Prev(), ... until nil, of the list (h, f, b);
\* a walk longer than the heap has met an element twice
NextWalk(h, f) == walkNext(h, f, Len(h) + 1)
PrevWalk(h, b) == walkPrev(h, b, Len(h) + 1)
Reverse(sq) == [i \in 1..Len(sq) |-> sq[Len(sq) + 1 - i]]
Without(sq, e) == SelectSeq(sq, LAMBDA x : x # e)
IndexOf(sq, e) == CHOOSE i \in DOMAIN sq : sq[i] = e
PlacedBefore(sq, e, mark) ==
    LET i == IndexOf(sq, mark)
    IN SubSeq(sq, 1, i - 1) \o <<e>> \o SubSeq(sq, i, Len(sq))
PlacedAfter(sq, e, mark) ==
    LET i == IndexOf(sq, mark)
    IN SubSeq(sq, 1, i) \o <<e>> \o SubSeq(sq, i + 1, Len(sq))

\* the list is a proper doubly linked list of its live handles
WellFormed ==
    /\ Len(NextWalk(heap, front)) = numElements
    /\ NextWalk(heap, front) = Reverse(PrevWalk(heap, back))
    /\ Range(NextWalk(heap, front)) = Live

\* after the step the list reads order in both directions, end to end
Reads(order) ==
    /\ numElements' = Len(order)
    /\ NextWalk(heap', front') = order
    /\ PrevWalk(heap', back') = Reverse(order)
    /\ front' = (IF order = <<>> THEN Nil ELSE order[1])
    /\ back' = (IF order = <<>> THEN Nil ELSE order[Len(order)])

ListUnchanged ==
    /\ heap' = heap /\ front' = front /\ back' = back
    /\ numElements' = numElements

\* C22: on a well-formed list, MoveToFront(h) of a member makes h the Front
\* and MoveToBack(h) makes h the Back: Len and the order of the others are
\* kept in both directions, the opposite end becomes h's former neighbour when
\* h was that end, and nothing changes when h is already at the chosen end.
C22_MoveToEnd ==
    [][ LET e == last'.e
            order == NextWalk(heap, front)
        IN WellFormed /\ last'.op \in {"MoveToFront", "MoveToBack"} /\ e \in Live
           => IF last'.op = "MoveToFront"
              THEN /\ Reads(<<e>> \o Without(order, e))
                   /\ e = front => ListUnchanged
              ELSE /\ Reads(Without(order, e) \o <<e>>)
                   /\ e = back => ListUnchanged
      ]_vars

\* C23: on a well-formed list, MoveBefore(h, mark) and MoveAfter(h, mark) with
\* two distinct members place h immediately before / after mark, keep Len and
\* the order of the others, and leave Front and Back at the first and the last
\* element.
C23_MoveNextToMark ==
    [][ LET e == last'.e
            mark == last'.mark
            rest == Without(NextWalk(heap, front), e)
        IN /\ WellFormed /\ last'.op \in {"MoveBefore", "MoveAfter"}
           /\ e \in Live /\ mark \in Live /\ e # mark
           => IF last'.op = "MoveBefore"
              THEN Reads(PlacedBefore(rest, e, mark))
              ELSE Reads(PlacedAfter(rest, e, mark))
      ]_vars

\* C29: after any sequence of the nine mutators on members of the list, the
\* walk from Front over Next and the walk from Back over Prev end at nil after
\* Len() elements, mirror each other, and meet the members only.
C29_WalksMirrorEachOther ==
    /\ Len(NextWalk(heap, front)) = numElements
    /\ Len(PrevWalk(heap, back)) = numElements
    /\ NextWalk(heap, front) = Reverse(PrevWalk(heap, back))
    /\ Range(NextWalk(heap, front)) = Live

\* the step was a call that named a handle or a mark of the other list
ForeignCall ==
    /\ last'.op \in {"Remove", "MoveToFront", "MoveToBack", "MoveBefore",
                     "MoveAfter", "InsertBefore", "InsertAfter"}
    /\ last'.e \in Foreign \/ last'.mark \in Foreign

\* C24: a mutator called with a handle or a mark of another list leaves this
\* list as it was (Len, Front, Back, every element and pointer); InsertBefore
\* and InsertAfter return nil and allocate nothing.
C24_ForeignHandleIsIgnored ==
    [][ ForeignCall
        => /\ ListUnchanged
           /\ last'.op \in {"InsertBefore", "InsertAfter"} => last'.res = "nil"
      ]_vars

\* a member was to be moved next to a mark of the other list, in a list of two
C24_Witness ==
    /\ last.op = "MoveAfter"
    /\ last.e \in Live /\ last.mark \in Foreign
    /\ numElements = 2
    /\ last.e = front

ValuesOf(sq) == [i \in 1..Len(sq) |-> heap[sq[i]].v]

\* C25: PushFront(v) puts the new element before all others and PushBack(v)
\* after all others, in both traversal directions, Len grows by one, and the
\* push into an empty list makes the element Front and Back with nil Prev and
\* Next; so n PushFronts read vn..v1 and n PushBacks v1..vn.
C25_PushOrder ==
    [][ LET e == last'.e
            order == NextWalk(heap, front)
        IN last'.op \in {"PushFront", "PushBack"}
           => /\ heap'[e].v = last'.v
              /\ numElements' = numElements + 1
              /\ IF last'.op = "PushFront"
                 THEN Reads(<<e>> \o order)
                 ELSE Reads(order \o <<e>>)
              /\ numElements = 0
                 => /\ front' = e /\ back' = e
                    /\ heap'[e].prev = Nil /\ heap'[e].next = Nil
      ]_vars

\* three pushes, the last ones at the back, read v1, v2, v3 from the front
C25_Witness ==
    /\ last.op = "PushBack"
    /\ hist.removed = {}
    /\ ValuesOf(NextWalk(heap, front)) = <<1, 2, 3>>
    /\ ValuesOf(PrevWalk(heap, back)) = <<3, 2, 1>>

\* ---- the lifecycle
\* what the method named op requires, and what it makes of the state
Requires == [Start |-> stateInit, Stop |-> stateStarted, Close |-> stateStopped]

\* C26: a State only advances Init -> Running -> Stopped -> Closed. Start,
\* Stop and Close return true exactly from Init, Running and Stopped, and
\* then advance the state by one; otherwise they return false and change
\* nothing. In any order of calls each returns true at most once, and each of
\* the three channels is closed exactly when its transition has happened.
\* No channel is closed twice.
C26_StateAdvancesOnly ==
    /\ [](/\ \A m \in DOMAIN Requires : hist.trues[m] <= 1
          /\ started = (state >= stateStarted) /\ started = (hist.trues["Start"] = 1)
          /\ stopped = (state >= stateStopped) /\ stopped = (hist.trues["Stop"] = 1)
          /\ closed = (state = stateClosed) /\ closed = (hist.trues["Close"] = 1)
          /\ ~panicked)
    /\ [][ /\ state' # state => state' = state + 1
           /\ \A m \in DOMAIN Requires :
                 last'.op = m
                 => /\ last'.res = (state = Requires[m])
                    /\ last'.res => state' = Requires[m] + 1
                    /\ ~last'.res => UNCHANGED lifecycleVars
       ]_vars

\* the State went all the way, and a second Stop and a second Close came late
C26_Witness ==
    /\ state = stateClosed
    /\ hist.calls["Stop"] = 2 /\ hist.trues["Stop"] = 1
    /\ hist.calls["Close"] = 2 /\ hist.trues["Close"] = 1
    /\ last.op = "Stop" /\ ~last.res

\* C27: while the job runs, every signal that Signal sent is either still
\* pending or has caused one execution of the loop function, and a signal sent
\* with the goroutine at its select is executed unless the job is stopped
\* first; a Signal that finds a signal pending is dropped; the executions
\* never exceed the Signal calls; and no execution starts once Stopped() is
\* closed.
C27_OneExecutionPerSentSignal ==
    /\ [](/\ hist.sent = hist.executions + signalled.buf
          /\ signalled.buf <= SignalledCap
          /\ hist.executions <= hist.signals
          /\ closed => loop = "done"
          /\ ~panicked)
    /\ [][ /\ last'.op = "Signal" /\ state = stateStarted /\ signalled.buf = 0
              => last'.res = "sent" /\ signalled'.buf = 1
           /\ last'.op = "Signal" /\ state = stateStarted /\ signalled.buf > 0
              => last'.res = "dropped" /\ signalled' = signalled
           /\ closed => hist'.executions = hist.executions
       ]_vars
    /\ \A n \in 1..MaxOpsJob :
          (hist.sent = n /\ loop = "select")
              ~> (hist.executions = n \/ stopped)

\* two signals were executed, a third was dropped behind a pending one, and
\* the job has stopped completely
C27_Witness ==
    /\ closed /\ loop = "done"
    /\ hist.executions = 2
    /\ hist.signals > hist.sent
    /\ hist.sent >= 2

\* ---- the cache, continued
\* the step is a Get(k) that finds the entry e of k mapped, loaded and expired
GetFindsExpired(k, e) ==
    /\ last'.op = "Get" /\ last'.k = k
    /\ e = byKey[k] /\ e # Nil
    /\ ~heap[e].loading /\ isExpired(heap[e])

\* C31: a Get that finds an expired entry counts one expiration, takes the
\* entry out of the map and out of the recency list (CurrentSize one less, the
\* others in their order) and goes on as a miss or a load; no other Get call
\* counts an expiration.
C31_ExpiredEntryIsDropped ==
    [][ /\ \A k \in Keys, e \in DOMAIN heap :
              GetFindsExpired(k, e)
              => /\ stats'.Expirations = stats.Expirations + 1
                 /\ byKey'[k] # e
                 /\ numElements' = numElements - 1
                 /\ NextWalk(heap', front') = Without(NextWalk(heap, front), e)
                 /\ stats'.Hits = stats.Hits
                 /\ IF loadFn
                    THEN /\ last'.res = "loading"
                         /\ stats'.LoadAttempts = stats.LoadAttempts + 1
                    ELSE /\ last'.res = "ErrNotFound" /\ byKey'[k] = Nil
                         /\ stats'.Misses = stats.Misses + 1
        /\ last'.op = "Get" /\ ~(\E e \in DOMAIN heap : GetFindsExpired(last'.k, e))
              => stats'.Expirations = stats.Expirations
      ]_vars

\* k was never put, and every provider call for k that returned has failed
AlwaysFailed(k) ==
    /\ hist.puts[k] = 0
    /\ hist.calls[k] = hist.failed[k] + Cardinality(Loading(k))

\* C32: on a cache with a provider, a Get is handed a provider error only by
\* the provider call it made itself; a waiter woken after a failed load loads
\* again on its own. So for a key whose loads all fail, every Get that has
\* returned has made one provider call, and when that holds for all keys
\* LoadAttempts and Misses + LoadFailures both equal the Gets that returned.
C32_ErrorsAreNotShared ==
    /\ [](loadFn =>
            /\ \A k \in Keys :
                  AlwaysFailed(k) => hist.returned[k] = hist.failed[k]
            /\ (gets = EmptyBag /\ hist.cancelled = 0 /\ \A k \in Keys : AlwaysFailed(k))
                  => /\ stats.LoadAttempts = GetsReturned
                     /\ stats.Misses + stats.LoadFailures = GetsReturned
                     /\ stats.Hits = 0)
    /\ [][ loadFn /\ last'.res \in {"ErrNotFound", "error"}
           => /\ last'.op = "LoadReturn"
              /\ \E g \in Loading(last'.k) : gets' = gets (-) One(g)
              /\ hist'.calls = hist.calls
       ]_vars

\* a waiter was woken by a failed load, found the key absent and has called
\* the provider itself
C32_Witness ==
    /\ loadFn
    /\ last.op = "Wake" /\ last.res = "loading"
    /\ AlwaysFailed(last.k)
    /\ hist.failed[last.k] = 1 /\ hist.calls[last.k] = 2

\* the provider calls made so far, and those that have not returned yet
ProviderCalls == SumOver(hist.calls)
LoadsInFlight == Cardinality({g \in GetsInProgress : g.st = "loading"})

\* C33: LoadAttempts is the number of provider calls that were started,
\* whatever they returned or will return.
C33_LoadAttemptsCountsProviderCalls ==
    /\ stats.LoadAttempts = ProviderCalls
    /\ stats.LoadAttempts =
          hist.ownLoads + SumOver(hist.failed) + LoadsInFlight

\* three provider calls have returned: a value, NotFound and another error
C33_Witness ==
    /\ stats.LoadAttempts = 3 /\ LoadsInFlight = 0
    /\ hist.ownLoads = 1 /\ stats.Misses = 1 /\ stats.LoadFailures = 1

\* C34: every Get that does not end in a cancellation counts exactly once, as
\* a hit or as a load attempt on a cache with a provider, as a hit or as a
\* miss on a cache without one; so the two counters add up to the Gets that
\* returned and, with a provider, the Gets whose provider call is running
\* (none when no Get is in progress).
C34_EachGetCountsOnce ==
    /\ [](IF loadFn
          THEN stats.Hits + stats.LoadAttempts = GetsReturned + LoadsInFlight
          ELSE stats.Hits + stats.Misses = GetsReturned)
    /\ [][ LET before == stats.Hits + (IF loadFn THEN stats.LoadAttempts ELSE stats.Misses)
               after  == stats'.Hits + (IF loadFn THEN stats'.LoadAttempts ELSE stats'.Misses)
           IN /\ after \in {before, before + 1}
              /\ after = before + 1 => last'.op \in {"Get", "Wake"}
              /\ last'.op = "Cancel" => after = before
       ]_vars

\* a Get that loaded and a Get that waited for it and was cancelled: one
\* load attempt, one Get returned
C34_Witness ==
    /\ loadFn /\ gets = EmptyBag
    /\ hist.cancelled = 1
    /\ stats.LoadAttempts = 1 /\ stats.Hits = 0 /\ GetsReturned = 1

\* the Gets in progress that called the provider for the placeholder e
LoadersOf(e) == {g \in GetsInProgress : g.st = "loading" /\ g.e = e}

\* C35: with a provider whose every call returns and a fair scheduler, every
\* Get in progress returns; a pending load signal belongs to exactly one Get
\* that is calling the provider, it is fired only by the return of that Get
\* and is never armed again; every waiter waits on a signal that is fired or
\* whose loader is still running; and no Get holds the mutex while it calls
\* the provider or waits.
C35_EveryGetReturns ==
    /\ (gets # EmptyBag) ~> (gets = EmptyBag)
    /\ [](\A e \in DOMAIN heap :
            heap[e].loading =>
              /\ Cardinality(LoadersOf(e)) = 1
              /\ \A g \in LoadersOf(e) : CopiesIn(g, gets) = 1)
    /\ [](\A g \in GetsInProgress :
            g.st = "waiting" => chanClosed(g.e) \/ LoadersOf(g.e) # {})
    /\ [](\A g \in GetsInProgress : ~holdsMut(g))
    /\ [][\A e \in DOMAIN heap :
            /\ ~heap[e].loading => ~heap'[e].loading
            /\ heap[e].loading /\ ~heap'[e].loading =>
                 /\ last'.op = "LoadReturn"
                 /\ \E g \in LoadersOf(e) : gets' = gets (-) One(g)]_vars

\* a Get loaded k while another Get of k waited; the waiter woke on the fired
\* signal and returned the loaded value, and no Get is left in progress
C35_Witness ==
    /\ gets = EmptyBag
    /\ last.op = "Wake" /\ last.res = "hit"
    /\ hist.calls[last.k] = 1 /\ hist.returned[last.k] = 2
    /\ hist.puts[last.k] = 0

\* the Gets among G that are calling the provider for k
LoadingAmong(G, k) == {g \in BagToSet(G) : g.st = "loading" /\ g.k = k}

\* C36: while the provider runs for k the mutex is free, so a Put or a Get can
\* take it; a Put of any key that runs meanwhile completes and leaves the load
\* of k in flight; a Get of another key j that runs meanwhile waits only when
\* j has a load of its own in flight, and when it calls the provider for j the
\* loads of k and j are in flight together.
C36_LoadBlocksNothingElse ==
    /\ [](\A k \in Keys : Loading(k) # {} => canLock)
    /\ [][\A k \in Keys :
            Loading(k) # {} =>
              /\ last'.op = "Put" =>
                   /\ last'.res = "done"
                   /\ Loading(k)' = Loading(k)
              /\ last'.op = "Get" /\ last'.k # k =>
                   /\ last'.res = "waiting" => Loading(last'.k) # {}
                   /\ last'.res \in {"hit", "loading", "waiting"}
                   /\ last'.res = "loading" =>
                        /\ Loading(k)' = Loading(k)
                        /\ LoadingAmong(gets', last'.k) # {}]_vars

\* the provider is running for k and for j at once, and a Put of one of the
\* two keys has just completed
C36_Witness ==
    /\ \E k, j \in Keys : k # j /\ Loading(k) # {} /\ Loading(j) # {}
    /\ last.op = "Put" /\ last.res = "done"
    /\ Loading(last.k) # {}

\* C37: a Get returns a value only from an entry whose load signal is not
\* pending, and a Get called for a key while the provider is running for that
\* key waits.
C37_GetWaitsForPendingLoad ==
    [][/\ last'.res = "hit" => ~heap[last'.e].loading
       /\ last'.op = "Get" /\ Loading(last'.k) # {} => last'.res = "waiting"]_vars

\* a standalone lruCache of the same capacity, TTL, clock and provider after
\* the calls of log, in their order
RECURSIVE Standalone(_)
Standalone(log) ==
    IF log = <<>> THEN newLRUCache
    ELSE LET c    == Standalone(SubSeq(log, 1, Len(log) - 1))
             call == log[Len(log)]
         IN IF call.op = "Get" THEN lruGet(c, call.k, call.out)
            ELSE putLocked(c, call.k, call.v, ZeroTime)

\* what the standalone cache returns to the n-th call of log
StandaloneResult(log, n) ==
    IF log[n].op = "Get"
    THEN lruGetResult(Standalone(SubSeq(log, 1, n - 1)), log[n].k, log[n].out)
    ELSE NoOutcome

NestedCallPending(g) ==
    callers[g].depth >= 1 /\ callers[g].st \in {"RLock", "granted"}

\* C39: an IfRunning called from inside an IfRunning callback gets the read
\* lock, runs its function and returns true, whatever Start, Stop and Close
\* calls other goroutines make meanwhile.
C39_NestedIfRunningReturns ==
    /\ [][last'.op = "IfRunning" /\ last'.depth >= 1 => last'.res]_vars
    /\ \A g \in Goroutines :
          NestedCallPending(g) ~> (callers[g].st = "fn" /\ callers[g].depth >= 2)

\* C40: no Signal sends on the closed channel: a Signal that is about to send
\* holds the read lock with the state Running and the channel open, every
\* Signal ends as sent, dropped or not running, and nothing panics; and no
\* Signal blocks: every Signal and every Stop that was called returns.
C40_SignalNeverSendsOnClosed ==
    /\ [](/\ ~panicked
          /\ \A g \in Goroutines :
                callers[g].op = "Signal" /\ callers[g].st = "fn"
                    => /\ state = stateStarted /\ ~signalled.closed
                       /\ loop \in {"select", "loopFn"}
                       /\ mut.readers >= 1)
    /\ [][last'.op = "Signal" => last'.res \in {"sent", "dropped", "not running"}]_vars
    /\ \A g \in Goroutines : (callers[g].st # "idle") ~> (callers[g].st = "idle")

\* a Signal that waited for the read lock behind a Stop found the job stopped
\* and did nothing, after the goroutine had closed the channel
C40_Witness ==
    /\ last.op = "Signal" /\ last.res = "not running"
    /\ signalled.closed
    /\ hist.signals = 1 /\ hist.sent = 0
    /\ \A g \in Goroutines : callers[g].st = "idle"

====
